---- MODULE Spec2Model ----
(***************************************************************************)
(* A model of emuman's content-addressed verification and reconciliation   *)
(* engine (src/src/game.rs): the Part identity of a byte stream, the       *)
(* two-tier identity cache (PART_CACHE keyed by FileId, and the            *)
(* user.emupart extended attribute), Game::verify, Game::add_and_verify    *)
(* with RomSource::extract, and cleanup_failures.                          *)
(*                                                                         *)
(* Spec   : the target tree, the source pool and sequential calls of       *)
(*          Game::verify and Game::add_and_verify sharing one RomSources.  *)
(* SpecId : Part::from_reader over a byte stream, read call by read call.  *)
(* SpecDb : GameDb's operations, the RomSources builder and subdir_files.  *)
(* SpecVg : GameDb::verify_game, one call of the recursion at a time.      *)
(* SpecPar: Game::verify with its parallel per-part workers, each stepping *)
(*          through Part::from_cached_path.                                *)
(* SpecRn : Game::rename with file_move, one directory entry at a time.    *)
(***************************************************************************)
EXTENDS Integers, Sequences, FiniteSets, TLC

VARIABLES
    \* ---- the host filesystem and the process-wide state
    fs,            \* path -> inode number, 0 when no file is at the path
    dirs,          \* the game directories that exist
    ino,           \* inode number -> [content, readable, xattr]
    partCache,     \* PART_CACHE: FileId -> Part
    rom_sources,   \* RomSources: Part -> RomSource
    xattrOK,       \* whether the filesystem stores extended attributes
    \* ---- the running call (Game::add_and_verify, Game::verify)
    pc,            \* position of the running call
    game,          \* self.name of the running call
    todo,          \* manifest names the loop has not visited yet
    files_on_disk, \* names read from the directory and not yet claimed
    failures,      \* the failure list being accumulated / returned
    extras,        \* cleanup_failures: Part -> name of the kept extra
    to_cleanup,    \* cleanup_failures: failures still to process
    ret,           \* the last return value
    \* ---- bookkeeping of the run
    ncalls,        \* calls started so far
    nfaults,       \* system calls that failed for environmental reasons
    prev,          \* the return value before the running call
    pre,           \* fs, ino, rom_sources, dirs, nfaults when the call started
    ev,            \* filesystem modifications done by the running call
    extrasIn,      \* names of the Extra{part: Ok} entering cleanup_failures
    copied,        \* Part -> number of full byte copies made during the run
    linkFailed,    \* a hard_link between two existing-capable files failed
    \* ---- Part::from_reader (SpecId)
    stream,        \* the bytes of the underlying reader
    pos,           \* bytes the underlying reader has handed out
    sha,           \* bytes Sha1Reader has fed to its Sha1
    need,          \* bytes the pending read_exact still wants
    buf,           \* bytes the pending read_exact has got
    rpc,           \* position inside from_reader / disk_from_reader
    version,       \* the decoded version field
    result,        \* what from_reader returned
    \* ---- GameDb and the RomSources builder (SpecDb)
    db,            \* GameDb.games: name -> [status, devices, parts]
    dop,           \* the running catalog operation
    inp,           \* its argument
    idx,           \* position of its sequential iteration
    acc,           \* what it has accumulated
    pend,          \* items its parallel workers have not finished
    fin,           \* the finished items, in the order the workers finished
    dout,          \* what the last operation returned
    \* ---- the parallel workers of Game::verify (SpecPar)
    wk             \* manifest name -> the worker's position and locals

wvars == <<fs, dirs, ino, partCache, rom_sources, xattrOK>>
cvars == <<pc, game, todo, files_on_disk, failures, extras, to_cleanup, ret>>
hvars == <<ncalls, nfaults, prev, pre, ev, extrasIn, copied, linkFailed>>
idvars == <<stream, pos, sha, need, buf, rpc, version, result>>
dbvars == <<db, dop, inp, idx, acc, pend, fin, dout>>
vars == <<wvars, cvars, hvars, idvars, dbvars, wk>>

----------------------------------------------------------------------------
(* Bounds *)

MaxCalls == 2
MaxFaults == 1

----------------------------------------------------------------------------
(* Parts, file contents and failures *)

Rom(h) == [tag |-> "Rom", sha1 |-> h]
Disk(h) == [tag |-> "Disk", sha1 |-> h]
NoPart == [tag |-> "None", sha1 |-> 0]
IOErr == [tag |-> "Err", sha1 |-> 0]

\* File bodies of the tree model are small numbers; each is a ROM image.
Contents == {1, 2}

\* Part::from_path of a readable ROM body: the hash of the whole content.
PartOf(c) == Rom(c)

Parts == {PartOf(c) : c \in Contents}
P1 == PartOf(1)
P2 == PartOf(2)

\* The body a source holds for a part (the inverse of the hash on Contents).
ContentOf(p) == CHOOSE c \in Contents : PartOf(c) = p

Missing(n, p) == [kind |-> "Missing", name |-> n, part |-> p, actual |-> NoPart]
Extra(n, p) == [kind |-> "Extra", name |-> n, part |-> p, actual |-> NoPart]
Bad(n, e, a) == [kind |-> "Bad", name |-> n, part |-> e, actual |-> a]
Error(n) == [kind |-> "Error", name |-> n, part |-> NoPart, actual |-> NoPart]

----------------------------------------------------------------------------
(* The catalog and the paths *)

Games == {"g0", "g1", "g2"}

\* Game.parts of each game: file name -> expected Part.
Manifest(g) ==
    CASE g = "g1" -> [n \in {"a"} |-> P1]
      [] g = "g2" -> [n \in {"a", "b"} |-> P1]
      [] OTHER -> [n \in {} |-> P1]

\* The file names that can occur in a game directory.
NamesOf(g) ==
    CASE g = "g1" -> {"a", "b", "c"}
      [] g = "g2" -> {"a", "b"}
      [] OTHER -> {}

TargetPaths == {<<g, n>> : g \in {"g1"}, n \in NamesOf("g1")}
                   \cup {<<g, n>> : g \in {"g2"}, n \in NamesOf("g2")}
PoolPath == <<"pool", "p1">>
ExtPath == <<"ext", "p1">>
ZipPath == <<"zip", "p1">>
FsPaths == TargetPaths \cup {PoolPath}

PathSeq ==
    << <<"g1", "a">>, <<"g1", "b">>, <<"g1", "c">>,
       <<"g2", "a">>, <<"g2", "b">>, PoolPath >>

NumIno == Len(PathSeq)
Inodes == 1..NumIno
HomeIno(p) == CHOOSE k \in Inodes : PathSeq[k] = p

NoFile == [content |-> 0, readable |-> TRUE, xattr |-> NoPart]

\* A directory entry whose file_type() is a directory: it holds no ROM body
\* and cannot be read as a file.
DirBody == 3
SubDir == [content |-> DirBody, readable |-> FALSE, xattr |-> NoPart]

\* DirEntry::file_type().is_file()
IsFile(f, i, p) == f[p] # 0 /\ i[f[p]].content # DirBody

NoSource == [kind |-> "None", path |-> <<"", "">>, has_xattr |-> FALSE]
FileSource(p, x) == [kind |-> "File", path |-> p, has_xattr |-> x]
ZipSource == [kind |-> "Zip", path |-> ZipPath, has_xattr |-> FALSE]

----------------------------------------------------------------------------
(* The filesystem primitives *)

Used(f) == {f[p] : p \in FsPaths} \ {0}
Free(f) == Inodes \ Used(f)
Min(S) == CHOOSE x \in S : \A y \in S : x <= y

\* The inode numbers a newly created file can get. Any free number is
\* possible; free numbers that PART_CACHE does not know are interchangeable,
\* so one of them stands for all.
AllocChoices(f, c) ==
    LET stale == {k \in Free(f) : c[k] # NoPart}
        fresh == {k \in Free(f) : c[k] = NoPart}
    IN  stale \cup (IF fresh = {} THEN {} ELSE {Min(fresh)})

\* unlink: the name goes, and the inode with its last name.
Unlink(f, i, p) ==
    LET f2 == [f EXCEPT ![p] = 0]
        k == f[p]
    IN  [fs |-> f2,
         ino |-> IF k # 0 /\ k \notin Used(f2) THEN [i EXCEPT ![k] = NoFile] ELSE i]

\* Part::set_xattr: the write is attempted and its failure ignored.
SetXattr(i, k, part) ==
    IF xattrOK /\ k # 0 THEN [i EXCEPT ![k].xattr = part] ELSE i

\* Part::get_xattr.
GetXattr(i, k) == i[k].xattr

\* Part::from_path: open and hash; IOErr when the file cannot be read.
FromPath(f, i, p) ==
    IF f[p] = 0 \/ ~i[f[p]].readable THEN IOErr ELSE PartOf(i[f[p]].content)

\* Part::from_disk_cached_path: the attribute if it decodes, else the hash,
\* after which the attribute is written.
FromDiskCachedPath(f, i, p) ==
    LET k == f[p]
        x == GetXattr(i, k)
        h == FromPath(f, i, p)
    IN  IF x # NoPart THEN [part |-> x, ino |-> i]
        ELSE IF h = IOErr THEN [part |-> IOErr, ino |-> i]
        ELSE [part |-> h, ino |-> SetXattr(i, k, h)]

\* Part::from_cached_path that asks the disk tier first and overwrites the
\* PART_CACHE entry with what it finds.
FromCachedPathDiskFirst(f, i, c, p) ==
    LET k == f[p]
        d == FromDiskCachedPath(f, i, p)
    IN  IF k = 0 THEN [part |-> IOErr, ino |-> i, cache |-> c]
        ELSE [part |-> d.part, ino |-> d.ino,
              cache |-> IF d.part = IOErr THEN c ELSE [c EXCEPT ![k] = d.part]]

\* Part::from_cached_path: PART_CACHE under the file's FileId first; a miss is
\* resolved by from_disk_cached_path and inserted.
FromCachedPath(f, i, c, p) ==
    LET k == f[p]
        d == FromDiskCachedPath(f, i, p)
    IN  IF k = 0 THEN [part |-> IOErr, ino |-> i, cache |-> c]
        ELSE IF c[k] # NoPart THEN [part |-> c[k], ino |-> i, cache |-> c]
        ELSE [part |-> d.part, ino |-> d.ino,
              cache |-> IF d.part = IOErr THEN c ELSE [c EXCEPT ![k] = d.part]]

\* Part::verify comparing nothing: any identity that could be read passes.
VerifyOutcomeAnyPart(expected, got, n) ==
    IF got = IOErr THEN Error(n)
    ELSE [kind |-> "Ok", name |-> n, part |-> expected, actual |-> got]

\* Part::verify: Ok, Bad or Error from the identity read by `from`.
VerifyOutcome(expected, got, n) ==
    IF got = IOErr THEN Error(n)
    ELSE IF got = expected THEN [kind |-> "Ok", name |-> n, part |-> expected, actual |-> got]
    ELSE Bad(n, expected, got)

\* Part::verify_cached and Part::verify_uncached, as outcomes.
VerifyCached(expected, f, i, c, g, n) ==
    VerifyOutcome(expected, FromCachedPath(f, i, c, <<g, n>>).part, n)

VerifyUncached(expected, f, i, g, n) ==
    VerifyOutcome(expected, FromPath(f, i, <<g, n>>), n)

----------------------------------------------------------------------------
(* RomSource::extract *)

\* The body of the other-device file and of the archive member.
ExtContent == ContentOf(P1)

\* std::fs::hard_link(source, target) can succeed: both on the target's
\* device, the source exists and the target does not.
CanLink(src, target, f) ==
    /\ src.kind = "File"
    /\ src.path \in FsPaths
    /\ f[src.path] # 0
    /\ f[target] = 0

\* The source can be opened and read.
SrcReadable(src, f, i) ==
    \/ src.kind = "Zip"
    \/ src.kind = "File" /\ src.path = ExtPath
    \/ src.kind = "File" /\ src.path \in FsPaths /\ f[src.path] # 0
          /\ i[f[src.path]].readable

SrcContent(src, f, i) ==
    IF src.path \in FsPaths THEN i[f[src.path]].content ELSE ExtContent

\* std::fs::copy / File::create + io::copy: a new file (a new inode) at an
\* empty path, the body of the existing file replaced otherwise.
WriteFile(f, i, target, content, newino) ==
    IF f[target] = 0
    THEN [fs |-> [f EXCEPT ![target] = newino],
          ino |-> [i EXCEPT ![newino] = [content |-> content, readable |-> TRUE,
                                         xattr |-> NoPart]]]
    ELSE [fs |-> f, ino |-> [i EXCEPT ![f[target]].content = content]]

\* RomSource::extract with a hard_link whose failure is final: no copy is
\* tried for a File source.
ExtractNoFallback(src, target, f, i, fault, newino) ==
    LET w == WriteFile(f, i, target, SrcContent(src, f, i), newino)
    IN  IF src.kind = "File" /\ CanLink(src, target, f) /\ fault # "link"
        THEN [how |-> "Linked", has_xattr |-> src.has_xattr,
              fs |-> [f EXCEPT ![target] = f[src.path]], ino |-> i,
              hit |-> FALSE, alloc |-> FALSE]
        ELSE IF src.kind = "Zip" /\ fault # "copy"
        THEN [how |-> "Copied", has_xattr |-> FALSE, fs |-> w.fs, ino |-> w.ino,
              hit |-> FALSE, alloc |-> (f[target] = 0)]
        ELSE [how |-> "Err", has_xattr |-> FALSE, fs |-> f, ino |-> i,
              hit |-> (fault = "copy" /\ src.kind = "Zip"), alloc |-> FALSE]

\* RomSource::extract that moves a File source to the target instead of
\* linking or copying it.
ExtractMovesSource(src, target, f, i, fault, newino) ==
    LET w == WriteFile(f, i, target, SrcContent(src, f, i), newino)
    IN  IF src.kind = "File" /\ CanLink(src, target, f) /\ fault # "link"
        THEN [how |-> "Linked", has_xattr |-> src.has_xattr,
              fs |-> [f EXCEPT ![target] = f[src.path], ![src.path] = 0], ino |-> i,
              hit |-> FALSE, alloc |-> FALSE]
        ELSE IF SrcReadable(src, f, i) /\ fault # "copy"
        THEN [how |-> "Copied", has_xattr |-> FALSE, fs |-> w.fs, ino |-> w.ino,
              hit |-> (fault = "link" /\ src.kind = "File" /\ CanLink(src, target, f)),
              alloc |-> (f[target] = 0)]
        ELSE [how |-> "Err", has_xattr |-> FALSE, fs |-> f, ino |-> i,
              hit |-> (fault = "copy" /\ SrcReadable(src, f, i)), alloc |-> FALSE]

\* RomSource::extract(target). `fault` names the system call that fails for
\* an environmental reason ("none": no such failure); hit tells whether that
\* call was reached.
Extract(src, target, f, i, fault, newino) ==
    LET w == WriteFile(f, i, target, SrcContent(src, f, i), newino)
    IN  IF src.kind = "File" /\ CanLink(src, target, f) /\ fault # "link"
        THEN [how |-> "Linked", has_xattr |-> src.has_xattr,
              fs |-> [f EXCEPT ![target] = f[src.path]], ino |-> i,
              hit |-> FALSE, alloc |-> FALSE]
        ELSE IF SrcReadable(src, f, i) /\ fault # "copy"
        THEN [how |-> "Copied", has_xattr |-> FALSE, fs |-> w.fs, ino |-> w.ino,
              hit |-> (fault = "link" /\ src.kind = "File" /\ CanLink(src, target, f)),
              alloc |-> (f[target] = 0)]
        ELSE [how |-> "Err", has_xattr |-> FALSE, fs |-> f, ino |-> i,
              hit |-> (fault = "copy" /\ SrcReadable(src, f, i)), alloc |-> FALSE]

\* The Extracted match without entry.insert after Copied: RomSources keeps
\* naming the original source.
MaterializeKeepSource(src, part, target, f, i, fault, newino) ==
    LET e == Extract(src, target, f, i, fault, newino)
    IN  [status |-> IF e.how = "Err" THEN "err" ELSE "ok", how |-> e.how, fs |-> e.fs,
         ino |-> IF e.how = "Err" \/ e.has_xattr THEN e.ino
                 ELSE SetXattr(e.ino, e.fs[target], part),
         source |-> src, hit |-> e.hit, alloc |-> e.alloc]

\* The Extracted match with a Linked arm that never writes the attribute.
MaterializeLinkNoXattr(src, part, target, f, i, fault, newino) ==
    LET e == Extract(src, target, f, i, fault, newino)
    IN  [status |-> IF e.how = "Err" THEN "err" ELSE "ok", how |-> e.how, fs |-> e.fs,
         ino |-> IF e.how = "Copied" THEN SetXattr(e.ino, e.fs[target], part) ELSE e.ino,
         source |-> IF e.how = "Copied" THEN FileSource(target, TRUE) ELSE src,
         hit |-> e.hit, alloc |-> e.alloc]

\* The Extracted match with entry.insert in both arms: RomSources names the
\* target after Linked as well.
MaterializeRetarget(src, part, target, f, i, fault, newino) ==
    LET e == Extract(src, target, f, i, fault, newino)
    IN  [status |-> IF e.how = "Err" THEN "err" ELSE "ok", how |-> e.how, fs |-> e.fs,
         ino |-> IF e.how = "Err" \/ (e.how = "Linked" /\ e.has_xattr) THEN e.ino
                 ELSE SetXattr(e.ino, e.fs[target], part),
         source |-> IF e.how = "Err" THEN src ELSE FileSource(target, TRUE),
         hit |-> e.hit, alloc |-> e.alloc]

\* The Extracted match of add_and_verify: after Copied the attribute is set
\* and RomSources[part] becomes the target; after Linked the attribute is set
\* unless the source was flagged has_xattr.
Materialize(src, part, target, f, i, fault, newino) ==
    LET e == Extract(src, target, f, i, fault, newino)
    IN  CASE e.how = "Copied" ->
               [status |-> "ok", how |-> "Copied", fs |-> e.fs,
                ino |-> SetXattr(e.ino, e.fs[target], part),
                source |-> FileSource(target, TRUE), hit |-> e.hit, alloc |-> e.alloc]
          [] e.how = "Linked" ->
               [status |-> "ok", how |-> "Linked", fs |-> e.fs,
                ino |-> IF e.has_xattr THEN e.ino
                        ELSE SetXattr(e.ino, e.fs[target], part),
                source |-> src, hit |-> e.hit, alloc |-> e.alloc]
          [] OTHER ->
               [status |-> "err", how |-> "Err", fs |-> e.fs, ino |-> e.ino,
                source |-> src, hit |-> e.hit, alloc |-> e.alloc]

----------------------------------------------------------------------------
(* Initial states *)

NoRet == [op |-> "none", game |-> "", status |-> "none", failures |-> {},
          wrote |-> FALSE]
NoExtras == [p \in Parts |-> ""]

\* What a path of the target tree can hold before the run: nothing, a
\* readable body, or a file that cannot be opened.
InitKinds == {"none", "c1", "c2", "locked"}

InitFile(k) ==
    CASE k = "c1" -> [content |-> 1, readable |-> TRUE, xattr |-> NoPart]
      [] k = "c2" -> [content |-> 2, readable |-> TRUE, xattr |-> NoPart]
      [] k = "locked" -> [content |-> 2, readable |-> FALSE, xattr |-> NoPart]
      [] k = "dir" -> SubDir
      [] OTHER -> NoFile

\* The RomSources a run can start with: no source for P1, the pool file
\* (cataloged with or without its attribute), a file on another device, or
\* an archive member.
InitSources == {"none", "pool", "poolx", "ext", "zip"}

InitSource(k) ==
    CASE k = "pool" -> FileSource(PoolPath, FALSE)
      [] k = "poolx" -> FileSource(PoolPath, TRUE)
      [] k = "ext" -> FileSource(ExtPath, FALSE)
      [] k = "zip" -> ZipSource
      [] OTHER -> NoSource

\* The directory of g2 before the run: absent, empty, or holding a wrong a.
InitG2 == {"absent", "empty", "bad"}

\* The one name of a game directory that can be a nested subdirectory.
NestedName == "c"

IdIdle ==
    /\ stream = <<>>
    /\ pos = 0
    /\ sha = <<>>
    /\ need = 0
    /\ buf = <<>>
    /\ rpc = "off"
    /\ version = 0
    /\ result = NoPart

NoOut == [op |-> "none", status |-> "none"]

DbIdle ==
    /\ db = <<>>
    /\ dop = "idle"
    /\ inp = <<>>
    /\ idx = 0
    /\ acc = {}
    /\ pend = {}
    /\ fin = <<>>
    /\ dout = NoOut

WorldInit ==
    \E k1 \in [NamesOf("g1") -> InitKinds \cup {"dir"}], k2 \in InitG2,
       ks \in InitSources, x \in BOOLEAN :
        LET kind(p) ==
                IF p[1] = "g1" THEN k1[p[2]]
                ELSE IF p = <<"g2", "a">> /\ k2 = "bad" THEN "c2"
                ELSE IF p = PoolPath /\ ks \in {"pool", "poolx"} THEN "c1"
                ELSE "none"
        IN  /\ fs = [p \in FsPaths |-> IF kind(p) = "none" THEN 0 ELSE HomeIno(p)]
            /\ ino = [k \in Inodes |->
                        IF k = HomeIno(PoolPath) /\ ks = "poolx" /\ x
                        THEN [InitFile("c1") EXCEPT !.xattr = P1]
                        ELSE InitFile(kind(PathSeq[k]))]
            /\ dirs = {g \in {"g1"} : \E n \in NamesOf("g1") : k1[n] # "none"}
                        \cup {g \in {"g2"} : k2 # "absent"}
            /\ rom_sources = [p \in Parts |-> IF p = P1 THEN InitSource(ks) ELSE NoSource]
            /\ xattrOK = x
            /\ (ks = "poolx" => x)
            /\ \A n \in NamesOf("g1") : k1[n] = "dir" => n = NestedName

\* No call has run yet: PART_CACHE is empty.
CallIdle ==
    /\ partCache = [k \in Inodes |-> NoPart]
    /\ pc = "idle"
    /\ game = ""
    /\ todo = {}
    /\ files_on_disk = {}
    /\ failures = {}
    /\ extras = NoExtras
    /\ to_cleanup = {}
    /\ ret = NoRet
    /\ ncalls = 0
    /\ nfaults = 0
    /\ prev = NoRet
    /\ pre = [fs |-> fs, ino |-> ino, src |-> rom_sources, dirs |-> dirs, nf |-> 0]
    /\ ev = {}
    /\ extrasIn = {}
    /\ copied = [p \in Parts |-> 0]
    /\ linkFailed = FALSE
    /\ wk = <<>>

TreeInit == WorldInit /\ CallIdle

Init == TreeInit /\ IdIdle /\ DbIdle

----------------------------------------------------------------------------
(* Game::add_and_verify *)

Event(op, n, from) == [op |-> op, name |-> n, from |-> from]

FaultKinds == {"none", "remove", "mkdir", "link", "copy"}

\* read_dir(game_root): the regular files of the directory, none when the
\* directory cannot be read.
ReadDir(g) ==
    IF g \in dirs THEN {n \in NamesOf(g) : IsFile(fs, ino, <<g, n>>)} ELSE {}

\* An error that is noted while the loop goes on with the same entry.
ReturnErrKeepsGoing ==
    /\ pc' = "loop"
    /\ ret' = [op |-> "add", game |-> game, status |-> "Err", failures |-> {},
               wrote |-> (ev' # {})]
    /\ UNCHANGED <<failures, todo, files_on_disk>>

\* An early return through `?`.
ReturnErr ==
    /\ pc' = "idle"
    /\ ret' = [op |-> "add", game |-> game, status |-> "Err", failures |-> {},
               wrote |-> (ev' # {})]
    /\ failures' = {}
    /\ todo' = {}
    /\ files_on_disk' = {}

\* Return of Ok(list).
ReturnOk(list) ==
    /\ pc' = "idle"
    /\ ret' = [op |-> "add", game |-> game, status |-> "Ok", failures |-> list,
               wrote |-> (ev' # {})]
    /\ failures' = {}
    /\ todo' = {}
    /\ files_on_disk' = {}

\* rom_sources.entry(part) is Entry::Occupied.
HasSourceAlways(src) == TRUE

HasSource(src) == src # NoSource

\* The call starts: the directory is read into files_on_disk.
AV_Start(g) ==
    /\ pc = "idle"
    /\ ncalls < MaxCalls
    /\ pc' = "loop"
    /\ game' = g
    /\ todo' = DOMAIN Manifest(g)
    /\ files_on_disk' = ReadDir(g)
    /\ failures' = {}
    /\ extras' = NoExtras
    /\ to_cleanup' = {}
    /\ ret' = NoRet
    /\ ncalls' = ncalls + 1
    /\ prev' = ret
    /\ pre' = [fs |-> fs, ino |-> ino, src |-> rom_sources, dirs |-> dirs,
               nf |-> nfaults]
    /\ ev' = {}
    /\ extrasIn' = {}
    /\ UNCHANGED <<wvars, nfaults, copied, linkFailed, idvars, dbvars, wk>>

\* One iteration of `for (name, part) in self.parts.iter()`, the file found
\* in files_on_disk: verified through the cache; when it is not right and
\* RomSources has the part, removed and replaced from the source.
AV_Present(n, fault) ==
    LET tgt == <<game, n>>
        part == Manifest(game)[n]
        r == FromCachedPath(fs, ino, partCache, tgt)
        out == VerifyOutcome(part, r.part, n)
        src == rom_sources[part]
        u == Unlink(fs, r.ino, tgt)
        M(newino) == Materialize(src, part, tgt, u.fs, u.ino, fault, newino)
    IN  /\ pc = "loop"
        /\ n \in todo
        /\ n \in files_on_disk
        /\ partCache' = r.cache
        /\ dirs' = dirs
        /\ UNCHANGED <<xattrOK, game, extras, to_cleanup, ncalls, prev, pre,
                       extrasIn, idvars, dbvars, wk>>
        /\ IF out.kind = "Ok" \/ ~HasSource(src)
           THEN /\ fault = "none"
                /\ fs' = fs /\ ino' = r.ino
                /\ failures' = IF out.kind = "Ok" THEN failures ELSE failures \cup {out}
                /\ todo' = todo \ {n}
                /\ files_on_disk' = files_on_disk \ {n}
                /\ UNCHANGED <<rom_sources, pc, ret, nfaults, ev, copied, linkFailed>>
           ELSE IF fault = "remove"
           THEN /\ nfaults < MaxFaults
                /\ nfaults' = nfaults + 1
                /\ fs' = fs /\ ino' = r.ino
                /\ UNCHANGED <<rom_sources, ev, copied, linkFailed>>
                /\ ReturnErr
           ELSE \E newino \in (IF M(1).alloc THEN AllocChoices(u.fs, r.cache) ELSE {1}) :
                LET m == M(newino) IN
                /\ fault # "mkdir"
                /\ IF m.hit THEN nfaults < MaxFaults ELSE fault = "none"
                /\ nfaults' = IF m.hit THEN nfaults + 1 ELSE nfaults
                /\ linkFailed' = (linkFailed \/ (m.hit /\ fault = "link"))
                /\ fs' = m.fs /\ ino' = m.ino
                /\ rom_sources' = [rom_sources EXCEPT ![part] = m.source]
                /\ copied' = IF m.how = "Copied"
                             THEN [copied EXCEPT ![part] = @ + 1] ELSE copied
                /\ ev' = ev \cup {Event("unlink", n, "")}
                            \cup (IF m.status = "ok"
                                  THEN {Event(IF m.how = "Copied" THEN "copy" ELSE "link", n, "")}
                                  ELSE {})
                /\ IF m.status = "ok"
                   THEN /\ todo' = todo \ {n}
                        /\ files_on_disk' = files_on_disk \ {n}
                        /\ UNCHANGED <<failures, pc, ret>>
                   ELSE ReturnErr

\* One iteration of the loop, no file of that name in files_on_disk: linked
\* or copied from RomSources when the part is there, Missing otherwise.
AV_Absent(n, fault) ==
    LET tgt == <<game, n>>
        part == Manifest(game)[n]
        src == rom_sources[part]
        M(newino) == Materialize(src, part, tgt, fs, ino, fault, newino)
    IN  /\ pc = "loop"
        /\ n \in todo
        /\ n \notin files_on_disk
        /\ UNCHANGED <<partCache, xattrOK, game, extras, to_cleanup, ncalls, prev,
                       pre, extrasIn, idvars, dbvars, wk>>
        /\ IF ~HasSource(src)
           THEN /\ fault = "none"
                /\ failures' = failures \cup {Missing(n, part)}
                /\ todo' = todo \ {n}
                /\ UNCHANGED <<fs, ino, dirs, rom_sources, pc, ret, nfaults, ev,
                               copied, linkFailed, files_on_disk>>
           ELSE IF fault = "mkdir"
           THEN /\ game \notin dirs
                /\ nfaults < MaxFaults
                /\ nfaults' = nfaults + 1
                /\ UNCHANGED <<fs, ino, dirs, rom_sources, ev, copied, linkFailed>>
                /\ ReturnErr
           ELSE \E newino \in (IF M(1).alloc THEN AllocChoices(fs, partCache) ELSE {1}) :
                LET m == M(newino) IN
                /\ fault # "remove"
                /\ IF m.hit THEN nfaults < MaxFaults ELSE fault = "none"
                /\ nfaults' = IF m.hit THEN nfaults + 1 ELSE nfaults
                /\ linkFailed' = (linkFailed \/ (m.hit /\ fault = "link"))
                /\ dirs' = dirs \cup {game}
                /\ fs' = m.fs /\ ino' = m.ino
                /\ rom_sources' = [rom_sources EXCEPT ![part] = m.source]
                /\ copied' = IF m.how = "Copied"
                             THEN [copied EXCEPT ![part] = @ + 1] ELSE copied
                /\ ev' = ev \cup (IF game \in dirs THEN {} ELSE {Event("mkdir", "", "")})
                            \cup (IF m.status = "ok"
                                  THEN {Event(IF m.how = "Copied" THEN "copy" ELSE "link", n, "")}
                                  ELSE {})
                /\ IF m.status = "ok"
                   THEN /\ todo' = todo \ {n}
                        /\ UNCHANGED <<failures, pc, ret, files_on_disk>>
                   ELSE ReturnErr

----------------------------------------------------------------------------
(* cleanup_failures *)

\* VerifyFailure::extra(path): the identity is read with Part::from_path.
ExtraOf(g, n) == Extra(n, FromPath(fs, ino, <<g, n>>))

\* A rename done as hard_link: the old name stays.
RenameKeepsOld(f, i, from, to) ==
    LET u == Unlink(f, i, to)
    IN  [fs |-> [u.fs EXCEPT ![to] = f[from]], ino |-> u.ino]

\* std::fs::rename: the name moves with its inode; a file at the new name
\* is replaced.
Rename(f, i, from, to) ==
    LET u == Unlink(f, i, to)
    IN  [fs |-> [u.fs EXCEPT ![to] = f[from], ![from] = 0], ino |-> u.ino]

\* The maps `extras` can end as: the Extra{part: Ok} are inserted in the
\* order of the list, a later one replacing an earlier one of the same Part.
ExtrasMaps(okx) ==
    {m \in [Parts -> {""} \cup {f.name : f \in okx}] :
        \A p \in Parts :
            IF \E f \in okx : f.part = p
            THEN \E f \in okx : f.part = p /\ f.name = m[p]
            ELSE m[p] = ""}

\* The loop is over: the files nobody claimed become Extra, and
\* cleanup_failures partitions the list (or returns it as it is).
AV_Leftover ==
    LET all == failures \cup {ExtraOf(game, n) : n \in files_on_disk}
        okx == {f \in all : f.kind = "Extra" /\ f.part # IOErr}
    IN  /\ pc = "loop"
        /\ todo = {}
        /\ extrasIn' = {f.name : f \in okx}
        /\ UNCHANGED <<wvars, game, ncalls, nfaults, prev, pre, ev, copied,
                       linkFailed, idvars, dbvars, wk>>
        /\ IF okx = {}
           THEN /\ UNCHANGED <<extras, to_cleanup>>
                /\ ReturnOk(all)
           ELSE /\ pc' = "cleanup"
                /\ extras' \in ExtrasMaps(okx)
                /\ to_cleanup' = all \ okx
                /\ failures' = {}
                /\ files_on_disk' = {}
                /\ UNCHANGED <<todo, ret>>

\* A loop whose Error and Extra arms push nothing.
KeptNone(f) == {}

\* The Error and Extra arms of the loop: the failure is pushed as it is.
Kept(f) == {f}

\* One iteration of `for cleanup in to_cleanup`.
CleanupOne(f, fault) ==
    LET x == extras[f.part]
        from == <<game, x>>
        to == <<game, f.name>>
        u == Unlink(fs, ino, to)
        r == IF f.kind = "Bad" THEN Rename(u.fs, u.ino, from, to)
             ELSE Rename(fs, ino, from, to)
    IN  /\ pc = "cleanup"
        /\ f \in to_cleanup
        /\ to_cleanup' = to_cleanup \ {f}
        /\ UNCHANGED <<dirs, partCache, rom_sources, xattrOK, pc, game, todo,
                       files_on_disk, ret, ncalls, prev, pre, extrasIn, copied,
                       linkFailed, idvars, dbvars, wk>>
        /\ IF f.kind \in {"Missing", "Bad"} /\ x # ""
           THEN /\ extras' = [extras EXCEPT ![f.part] = ""]
                /\ fault \in {"none", "unlink", "rename"}
                /\ fault = "unlink" => f.kind = "Bad"
                /\ fault # "none" => nfaults < MaxFaults
                /\ nfaults' = IF fault = "none" THEN nfaults ELSE nfaults + 1
                /\ CASE fault = "none" ->
                          /\ fs' = r.fs /\ ino' = r.ino
                          /\ ev' = ev \cup {Event("rename", f.name, x)}
                                      \cup (IF f.kind = "Bad"
                                            THEN {Event("unlink", f.name, "")} ELSE {})
                          /\ failures' = failures
                     [] fault = "rename" ->
                          /\ fs' = (IF f.kind = "Bad" THEN u.fs ELSE fs)
                          /\ ino' = (IF f.kind = "Bad" THEN u.ino ELSE ino)
                          /\ ev' = ev \cup (IF f.kind = "Bad"
                                            THEN {Event("unlink", f.name, "")} ELSE {})
                          /\ failures' = failures \cup {f}
                     [] OTHER ->
                          /\ UNCHANGED <<fs, ino, ev>>
                          /\ failures' = failures \cup {f}
           ELSE /\ fault = "none"
                /\ failures' = failures \cup (IF f.kind \in {"Missing", "Bad"}
                                              THEN {f} ELSE Kept(f))
                /\ UNCHANGED <<fs, ino, extras, nfaults, ev>>

\* One element of `extras.into_iter()` after the loop: the extra nobody
\* took is unlinked, and stays an Extra failure when that fails.
CleanupUnlink(p, fault) ==
    LET x == extras[p]
        u == Unlink(fs, ino, <<game, x>>)
    IN  /\ pc = "cleanup"
        /\ to_cleanup = {}
        /\ x # ""
        /\ extras' = [extras EXCEPT ![p] = ""]
        /\ fault \in {"none", "unlink"}
        /\ fault # "none" => nfaults < MaxFaults
        /\ nfaults' = IF fault = "none" THEN nfaults ELSE nfaults + 1
        /\ IF fault = "none"
           THEN /\ fs' = u.fs /\ ino' = u.ino
                /\ ev' = ev \cup {Event("unlink", x, "")}
                /\ failures' = failures
           ELSE /\ UNCHANGED <<fs, ino, ev>>
                /\ failures' = failures \cup {Extra(x, p)}
        /\ UNCHANGED <<dirs, partCache, rom_sources, xattrOK, pc, game, todo,
                       files_on_disk, to_cleanup, ret, ncalls, prev, pre, extrasIn,
                       copied, linkFailed, idvars, dbvars, wk>>

\* cleanup_failures returns and add_and_verify wraps the list in Ok.
CleanupDone ==
    /\ pc = "cleanup"
    /\ to_cleanup = {}
    /\ extras = NoExtras
    /\ UNCHANGED <<wvars, game, extras, to_cleanup, ncalls, nfaults, prev, pre, ev,
                   extrasIn, copied, linkFailed, idvars, dbvars, wk>>
    /\ ReturnOk(failures)

----------------------------------------------------------------------------
(* Game::verify *)

\* The manifest pass without its None arm: absent names are not reported.
PartFailuresNoMissing(g, files) ==
    {o \in {VerifyCached(Manifest(g)[n], fs, ino, partCache, g, n) :
                n \in DOMAIN Manifest(g) \cap files} : o.kind # "Ok"}

\* The failures of the manifest entries: Missing for a name that is not in
\* the directory, what verify_cached says for one that is.
PartFailures(g, files) ==
    {Missing(n, Manifest(g)[n]) : n \in DOMAIN Manifest(g) \ files}
        \cup {o \in {VerifyCached(Manifest(g)[n], fs, ino, partCache, g, n) :
                        n \in DOMAIN Manifest(g) \cap files} : o.kind # "Ok"}

\* The list Game::verify returns for the directory of g.
VerifyList(g) ==
    LET files == ReadDir(g)
    IN  IF g \notin dirs /\ DOMAIN Manifest(g) = {}
        THEN {}
        ELSE PartFailures(g, files)
                \cup {ExtraOf(g, n) : n \in files \ DOMAIN Manifest(g)}

\* PART_CACHE and the attributes after verify_cached ran on `names`.
RECURSIVE CacheAfter(_, _, _, _)
CacheAfter(g, names, i, c) ==
    IF names = {} THEN [ino |-> i, cache |-> c]
    ELSE LET n == CHOOSE n \in names : TRUE
             r == FromCachedPath(fs, i, c, <<g, n>>)
         IN  CacheAfter(g, names \ {n}, r.ino, r.cache)

Verify(g) ==
    LET after == CacheAfter(g, DOMAIN Manifest(g) \cap ReadDir(g), ino, partCache)
    IN  /\ pc = "idle"
        /\ ncalls < MaxCalls
        /\ ncalls' = ncalls + 1
        /\ ret' = [op |-> "verify", game |-> g, status |-> "Ok",
                   failures |-> VerifyList(g), wrote |-> FALSE]
        /\ prev' = ret
        /\ game' = g
        /\ ino' = after.ino
        /\ partCache' = after.cache
        /\ pre' = [fs |-> fs, ino |-> ino, src |-> rom_sources, dirs |-> dirs,
               nf |-> nfaults]
        /\ ev' = {}
        /\ extrasIn' = {}
        /\ UNCHANGED <<fs, dirs, rom_sources, xattrOK, pc, todo, files_on_disk,
                       failures, extras, to_cleanup, nfaults, copied, linkFailed,
                       idvars, dbvars, wk>>

----------------------------------------------------------------------------
(* Part::from_reader, Part::disk_from_reader, Sha1Reader *)

\* Bounds of the byte streams.
MaxBody == 130
CopyBuf == 8

\* b"MComprHD"
Tag == <<77, 67, 111, 109, 112, 114, 72, 68>>

Zeros(n) == [i \in 1..n |-> 0]

\* n bytes starting at stream offset `from`; each byte tells its own offset.
Body(from, n, pat) == [i \in 1..n |-> (from + i - 1 + pat) % 256]

LenFields == {<<0, 0, 0, 0>>, <<0, 0, 0, 124>>}
VersionFields == {<<0, 0, 0, 2>>, <<0, 0, 0, 3>>, <<0, 0, 0, 4>>, <<0, 0, 0, 5>>,
                  <<0, 0, 0, 6>>, <<3, 0, 0, 0>>, <<0, 0, 1, 5>>}
BodyLens == {0, 19, 52, 84, 88, 96, 120, MaxBody}
Patterns == {0, 100}

ChdStreams ==
    {Tag \o l \o v \o Body(16, n, pat) :
        l \in LenFields, v \in VersionFields, n \in BodyLens, pat \in Patterns}

\* Streams that end inside the tag, the length field or the version field.
ShortStreams ==
    {SubSeq(Tag \o <<0, 0, 0, 0>> \o <<0, 0, 0, 5>>, 1, n) : n \in 0..15}

\* Streams without the tag.
PlainStreams ==
    {Body(0, n, pat) : n \in {1, 7, 8, 9, 30}, pat \in Patterns}
        \cup {<<77, 67, 111, 109, 112, 114, 72, 88>> \o Body(8, n, 0) : n \in {0, 30}}

Streams == ChdStreams \cup ShortStreams \cup PlainStreams

\* Sha1::digest of the bytes fed so far. The digest is kept as the fed bytes
\* themselves (SHA-1 taken as collision free); the tag keeps a digest apart
\* from 20 bytes read out of a header.
Digest(s) == <<"sha1", s>>

\* u32::from_be_bytes
U32FromBE(b) == ((b[1] * 256 + b[2]) * 256 + b[3]) * 256 + b[4]

\* The header size taken for the raw SHA-1 field of a version 5 header
\* instead of the combined one.
BytesToSkipRawSha1(v) ==
    CASE v = 3 -> (32 + 32 + 32 + 64 + 64 + 8 * 16 + 8 * 16 + 32) \div 8
      [] v = 4 -> (32 + 32 + 32 + 64 + 64 + 32) \div 8
      [] v = 5 -> (32 * 4 + 64 + 64 + 64 + 32 + 32) \div 8
      [] OTHER -> 0

\* bytes_to_skip of disk_from_reader, for the versions it knows.
BytesToSkip(v) ==
    CASE v = 3 -> (32 + 32 + 32 + 64 + 64 + 8 * 16 + 8 * 16 + 32) \div 8
      [] v = 4 -> (32 + 32 + 32 + 64 + 64 + 32) \div 8
      [] v = 5 -> (32 * 4 + 64 + 64 + 64 + 32 + 32 + 8 * 20) \div 8
      [] OTHER -> 0

KnownVersions == {3, 4, 5}

\* Sha1Reader::read updating with the whole buffer instead of data[0..bytes].
Sha1ReaderReadWholeBuffer(s, data, bytes) == s \o data

\* Sha1Reader::read: the bytes the inner reader returned go into the Sha1.
Sha1ReaderRead(s, data, bytes) == s \o SubSeq(data, 1, bytes)

\* The bytes the inner reader hands out when it returns k of them.
Chunk(k) == SubSeq(stream, pos + 1, pos + k)

Remaining == Len(stream) - pos

InExact == rpc \in {"tag", "length", "version", "skip", "sha1"}

\* from_reader called on a stream: disk_from_reader is about to read the tag.
IdInit ==
    /\ stream \in Streams
    /\ pos = 0
    /\ sha = <<>>
    /\ need = 8
    /\ buf = <<>>
    /\ rpc = "tag"
    /\ version = 0
    /\ result = NoPart

\* One read() of a pending read_exact: the inner reader returns k bytes, any
\* number between 1 and what the buffer still takes.
Id_ReadExact(k) ==
    /\ InExact
    /\ need > 0
    /\ k <= need
    /\ k <= Remaining
    /\ buf' = buf \o Chunk(k)
    /\ sha' = Sha1ReaderRead(sha, Chunk(k) \o Zeros(need - k), k)
    /\ pos' = pos + k
    /\ need' = need - k
    /\ UNCHANGED <<stream, rpc, version, result>>
    /\ UNCHANGED <<wvars, cvars, hvars, dbvars, wk>>

\* Every read_exact of disk_from_reader turning its error into Ok(None).
EofIsNoneAlways(at) == TRUE

\* Whether the read_exact at this position turns its error into Ok(None):
\* only r.read_exact(&mut tag).is_err() does, the others end in `?`.
EofIsNone(at) == at = "tag"

\* read() returns 0 inside read_exact: UnexpectedEof. The tag read turns the
\* error into Ok(None); every later read passes it up with `?`.
Id_ReadExactEof ==
    /\ InExact
    /\ need > 0
    /\ Remaining = 0
    /\ IF EofIsNone(rpc)
       THEN /\ rpc' = "copy"
            /\ UNCHANGED result
       ELSE /\ rpc' = "done"
            /\ result' = IOErr
    /\ need' = 0
    /\ buf' = <<>>
    /\ UNCHANGED <<stream, pos, sha, version>>
    /\ UNCHANGED <<wvars, cvars, hvars, dbvars, wk>>

\* The tag is in: compare with b"MComprHD".
Id_Tag ==
    /\ rpc = "tag"
    /\ need = 0
    /\ IF buf = Tag
       THEN rpc' = "length" /\ need' = 4
       ELSE rpc' = "copy" /\ need' = 0
    /\ buf' = <<>>
    /\ UNCHANGED <<stream, pos, sha, version, result>>
    /\ UNCHANGED <<wvars, cvars, hvars, dbvars, wk>>

\* skip(&mut r, 4): the length field is dropped.
Id_Length ==
    /\ rpc = "length"
    /\ need = 0
    /\ rpc' = "version"
    /\ need' = 4
    /\ buf' = <<>>
    /\ UNCHANGED <<stream, pos, sha, version, result>>
    /\ UNCHANGED <<wvars, cvars, hvars, dbvars, wk>>

\* The version field selects the header size, or Ok(None).
Id_Version ==
    /\ rpc = "version"
    /\ need = 0
    /\ version' = U32FromBE(buf)
    /\ IF version' \in KnownVersions
       THEN rpc' = "skip" /\ need' = BytesToSkip(version')
       ELSE rpc' = "copy" /\ need' = 0
    /\ buf' = <<>>
    /\ UNCHANGED <<stream, pos, sha, result>>
    /\ UNCHANGED <<wvars, cvars, hvars, dbvars, wk>>

\* The header is skipped: read the 20 bytes of the hash.
Id_Skip ==
    /\ rpc = "skip"
    /\ need = 0
    /\ rpc' = "sha1"
    /\ need' = 20
    /\ buf' = <<>>
    /\ UNCHANGED <<stream, pos, sha, version, result>>
    /\ UNCHANGED <<wvars, cvars, hvars, dbvars, wk>>

\* Ok(Some(Part::Disk { sha1 }))
Id_Sha1 ==
    /\ rpc = "sha1"
    /\ need = 0
    /\ result' = Disk(buf)
    /\ rpc' = "done"
    /\ buf' = <<>>
    /\ UNCHANGED <<stream, pos, sha, need, version>>
    /\ UNCHANGED <<wvars, cvars, hvars, dbvars, wk>>

\* One read() of copy(&mut r, &mut sink()).
Id_Copy(k) ==
    /\ rpc = "copy"
    /\ k <= CopyBuf
    /\ k <= Remaining
    /\ sha' = Sha1ReaderRead(sha, Chunk(k) \o Zeros(CopyBuf - k), k)
    /\ pos' = pos + k
    /\ UNCHANGED <<stream, need, buf, rpc, version, result>>
    /\ UNCHANGED <<wvars, cvars, hvars, dbvars, wk>>

\* copy sees the end of the stream: r.into() is Rom of the digest.
Id_CopyDone ==
    /\ rpc = "copy"
    /\ Remaining = 0
    /\ result' = Rom(Digest(sha))
    /\ rpc' = "done"
    /\ UNCHANGED <<stream, pos, sha, need, buf, version>>
    /\ UNCHANGED <<wvars, cvars, hvars, dbvars, wk>>

\* No tree operation runs while a stream is identified: an empty tree.
TreeIdle ==
    /\ fs = [p \in FsPaths |-> 0]
    /\ ino = [k \in Inodes |-> InitFile("none")]
    /\ dirs = {}
    /\ rom_sources = [p \in Parts |-> NoSource]
    /\ xattrOK = TRUE
    /\ CallIdle

InitId == TreeIdle /\ IdInit /\ DbIdle

IdNext ==
    \/ \E k \in 1..(MaxBody + 16) : Id_ReadExact(k)
    \/ Id_ReadExactEof
    \/ Id_Tag
    \/ Id_Length
    \/ Id_Version
    \/ Id_Skip
    \/ Id_Sha1
    \/ \E k \in 1..CopyBuf : Id_Copy(k)
    \/ Id_CopyDone

SpecId == InitId /\ [][IdNext]_vars

----------------------------------------------------------------------------
(* SpecDb : the catalog (GameDb) and the RomSources builder.              *)

DbNames == {"m", "d", "e"}
Unknown == "zz"
Statuses == {"Working", "Partial", "NotWorking"}
DeviceLists == {<<>>, <<"d">>, <<"e">>, <<"d", "e">>}

\* Devices refer downwards only: m may use d and e, d may use e.
Rank(n) == CASE n = "m" -> 1 [] n = "d" -> 2 [] OTHER -> 3

\* Game.parts of the catalog entries: file name -> Part.
GameParts(n) ==
    CASE n = "m" -> [k \in {"r1", "r2"} |-> IF k = "r1" THEN Rom(1) ELSE Rom(2)]
      [] n = "d" -> [k \in {"r"} |-> Rom(3)]
      [] OTHER -> [k \in {"c", "r1"} |-> IF k = "c" THEN Disk(4) ELSE Rom(1)]

NoGame == [status |-> "none", devices |-> <<>>, parts |-> <<>>]

SetOf(f) == {f[k] : k \in DOMAIN f}

\* Status::is_working
IsWorking(g) == g.status \in {"Working", "Partial"}

\* GameDb::is_game, as a total answer
IsGameAlways(c, name) == TRUE

\* GameDb::is_game
IsGame(c, name) == name \in DOMAIN c

\* self.games.get(name)
GameGet(c, name) == IF name \in DOMAIN c THEN c[name] ELSE NoGame

\* The order in which Game::verify reports the entries of Game.parts.
PartNames(n) ==
    CASE n = "m" -> <<"r1", "r2">>
      [] n = "d" -> <<"r">>
      [] OTHER -> <<"c", "r1">>

\* Game::verify of root/name where root holds no directory of that name:
\* one Missing per entry of Game.parts.
GameVerify(c, name) ==
    [i \in 1..Len(PartNames(name)) |->
        Missing(<<name, PartNames(name)[i]>>, c[name].parts[PartNames(name)[i]])]

\* GameDb::verify_game that does not descend below the devices of the game.
VerifyGameFlat(c, name) ==
    IF name \in DOMAIN c
    THEN LET ds == c[name].devices
             one(i) == IF i <= Len(ds) /\ ds[i] \in DOMAIN c
                       THEN GameVerify(c, ds[i]) ELSE <<>>
         IN GameVerify(c, name) \o one(1) \o one(2)
    ELSE <<>>

RECURSIVE VerifyGame(_, _)
RECURSIVE VerifyDevices(_, _)

\* game.devices.iter().flat_map(|device| self.verify_game(root, device))
VerifyDevices(c, devs) ==
    IF devs = <<>> THEN <<>>
    ELSE VerifyGame(c, Head(devs)) \o VerifyDevices(c, Tail(devs))

\* GameDb::verify_game
VerifyGame(c, name) ==
    IF name \in DOMAIN c
    THEN GameVerify(c, name) \o VerifyDevices(c, c[name].devices)
    ELSE <<>>

\* A worker of GameDb::verify that pairs its result with a name of its own
\* choosing among the requested ones.
VerifyPairAnyName(c, x) == <<CHOOSE y \in inp : TRUE, VerifyGame(c, x)>>

\* The closure of GameDb::verify: (game.as_str(), self.verify_game(root, game))
VerifyPair(c, x) == <<x, VerifyGame(c, x)>>

\* collect() of (key, value) pairs into a map: a later pair of the same key
\* replaces an earlier one.
CollectMap(pairs) ==
    [k \in {pairs[i][1] : i \in DOMAIN pairs} |->
        pairs[CHOOSE i \in DOMAIN pairs :
                 /\ pairs[i][1] = k
                 /\ \A j \in DOMAIN pairs : pairs[j][1] = k => j <= i][2]]

Returned(o, st, v, nm) == [op |-> o, status |-> st, value |-> v, name |-> nm]

\* -- the catalog as loaded: closed under devices, devices acyclic
DbInit ==
    \E S \in SUBSET DbNames, st \in [DbNames -> Statuses],
       dv \in [DbNames -> DeviceLists] :
        /\ \A n \in DbNames \ S : st[n] = "Working" /\ dv[n] = <<>>
        /\ \A n \in S : st[n] = "Partial" => n = "m"
        /\ \A n \in S : \A i \in 1..Len(dv[n]) :
               dv[n][i] \in S /\ Rank(dv[n][i]) > Rank(n)
        /\ db = [n \in S |-> [status |-> st[n], devices |-> dv[n],
                              parts |-> GameParts(n)]]

InitDb ==
    /\ TreeIdle
    /\ IdIdle
    /\ DbInit
    /\ dop = "idle"
    /\ inp = <<>>
    /\ idx = 0
    /\ acc = {}
    /\ pend = {}
    /\ fin = <<>>
    /\ dout = NoOut

\* GameDb::retain_working
Db_RetainWorking ==
    /\ dop = "idle"
    /\ db' = [n \in {x \in DOMAIN db : IsWorking(db[x])} |-> db[n]]
    /\ dout' = Returned("retain_working", "Ok", {}, "")
    /\ inp' = <<>> /\ idx' = 0 /\ acc' = {} /\ pend' = {} /\ fin' = <<>>
    /\ UNCHANGED dop
    /\ UNCHANGED <<wvars, cvars, hvars, idvars, wk>>

\* GameDb::display_parts
Db_DisplayParts(name) ==
    /\ dop = "idle"
    /\ dout' = IF GameGet(db, name) = NoGame
               THEN Returned("display_parts", "NoSuchSoftware", {}, name)
               ELSE IF \E d \in SetOf(db[name].devices) : GameGet(db, d) = NoGame
               THEN Returned("display_parts", "panic", {}, name)
               ELSE Returned("display_parts", "Ok", {}, name)
    /\ inp' = <<>> /\ idx' = 0 /\ acc' = {} /\ pend' = {} /\ fin' = <<>>
    /\ UNCHANGED <<db, dop>>
    /\ UNCHANGED <<wvars, cvars, hvars, idvars, wk>>

\* A caller enters validate_games or required_parts with a list of names.
Db_Call(o, games) ==
    /\ dop = "idle"
    /\ dop' = o
    /\ inp' = games
    /\ idx' = 1
    /\ acc' = {}
    /\ dout' = NoOut
    /\ pend' = {}
    /\ fin' = <<>>
    /\ UNCHANGED db
    /\ UNCHANGED <<wvars, cvars, hvars, idvars, wk>>

\* GameDb::validate_games: one turn of try_for_each
Db_ValidateStep ==
    /\ dop = "validate_games"
    /\ IF idx > Len(inp)
       THEN /\ dout' = Returned(dop, "Ok", {}, "")
            /\ dop' = "idle"
            /\ UNCHANGED idx
       ELSE IF IsGame(db, inp[idx])
       THEN /\ idx' = idx + 1
            /\ UNCHANGED <<dop, dout>>
       ELSE /\ dout' = Returned(dop, "NoSuchSoftware", {}, inp[idx])
            /\ dop' = "idle"
            /\ UNCHANGED idx
    /\ UNCHANGED <<db, inp, acc, pend, fin>>
    /\ UNCHANGED <<wvars, cvars, hvars, idvars, wk>>

\* GameDb::required_parts: one turn of try_for_each
Db_RequiredStep ==
    /\ dop = "required_parts"
    /\ IF idx > Len(inp)
       THEN /\ dout' = Returned(dop, "Ok", acc, "")
            /\ dop' = "idle"
            /\ UNCHANGED <<idx, acc>>
       ELSE IF GameGet(db, inp[idx]) # NoGame
       THEN /\ acc' = acc \cup SetOf(GameGet(db, inp[idx]).parts)
            /\ idx' = idx + 1
            /\ UNCHANGED <<dop, dout>>
       ELSE /\ dout' = Returned(dop, "NoSuchSoftware", {}, inp[idx])
            /\ dop' = "idle"
            /\ UNCHANGED <<idx, acc>>
    /\ UNCHANGED <<db, inp, pend, fin>>
    /\ UNCHANGED <<wvars, cvars, hvars, idvars, wk>>

\* GameDb::verify: the set of names is handed to the parallel iterator
Db_VerifyStart(S) ==
    /\ dop = "idle"
    /\ dop' = "verify"
    /\ inp' = S
    /\ pend' = S
    /\ fin' = <<>>
    /\ idx' = 0
    /\ acc' = {}
    /\ dout' = NoOut
    /\ UNCHANGED db
    /\ UNCHANGED <<wvars, cvars, hvars, idvars, wk>>

\* GameDb::verify: a worker finishes the name x
Db_VerifyWorker(x) ==
    /\ dop = "verify"
    /\ x \in pend
    /\ pend' = pend \ {x}
    /\ fin' = Append(fin, VerifyPair(db, x))
    /\ UNCHANGED <<db, dop, inp, idx, acc, dout>>
    /\ UNCHANGED <<wvars, cvars, hvars, idvars, wk>>

\* GameDb::verify: collect() into the BTreeMap
Db_VerifyCollect ==
    /\ dop = "verify"
    /\ pend = {}
    /\ dout' = Returned(dop, "Ok", CollectMap(fin), "")
    /\ dop' = "idle"
    /\ UNCHANGED <<db, inp, idx, acc, pend, fin>>
    /\ UNCHANGED <<wvars, cvars, hvars, idvars, wk>>

\* -- RomSources

RootNames == {"A", "B", "C", "D"}

\* subdir_files(root): the files of a root, in the order of the walk.
RootFiles(r) ==
    CASE r = "A" -> <<"plain", "zip">>
      [] r = "B" -> <<"tagged", "bad", "plain">>
      [] r = "C" -> <<"sealed", "deep">>
      [] OTHER -> <<>>

\* RomSource::ZipFile { file, zip_part }: at is <<index>> or <<index, sub_index>>
ZipMember(f, at) == [kind |-> "ZipFile", path |-> f, at |-> at, has_xattr |-> FALSE]
Entry(p, s) == [part |-> p, src |-> s]

SrcParts == {Rom(1), Rom(2), Rom(3), Rom(5), Rom(6), Rom(7), Rom(8), Rom(9)}

\* all_rom_sources keeps every Part; get_rom_sources keeps the required ones.
Filters == {SrcParts, {Rom(1), Rom(6)}}

RECURSIVE FlatSeq(_)
FlatSeq(ss) == IF ss = <<>> THEN <<>> ELSE Head(ss) \o FlatSeq(Tail(ss))

\* The body of a file or of an archive member: its Part, and its members
\* when it is an archive.
Leaf(p) == [part |-> p, members |-> <<>>]
Arch(p, ms) == [part |-> p, members |-> ms]

\* The files a root can hold: a plain ROM, a ROM carrying the attribute, an
\* archive with a nested archive, the same archive carrying the attribute,
\* an archive nested three deep, and a file that cannot be opened.
FileDesc(kind) ==
    CASE kind = "plain" ->
            [xattr |-> NoPart, readable |-> TRUE, body |-> Leaf(Rom(1))]
      [] kind = "tagged" ->
            [xattr |-> Rom(2), readable |-> TRUE, body |-> Leaf(Rom(2))]
      [] kind = "zip" ->
            [xattr |-> NoPart, readable |-> TRUE,
             body |-> Arch(Rom(5), << Leaf(Rom(1)),
                                      Arch(Rom(6), << Leaf(Rom(2)), Leaf(Rom(1)) >>) >>)]
      [] kind = "sealed" ->
            [xattr |-> Rom(5), readable |-> TRUE,
             body |-> Arch(Rom(5), << Leaf(Rom(1)),
                                      Arch(Rom(6), << Leaf(Rom(2)), Leaf(Rom(1)) >>) >>)]
      [] kind = "deep" ->
            [xattr |-> NoPart, readable |-> TRUE,
             body |-> Arch(Rom(7), << Arch(Rom(8),
                                        << Arch(Rom(9), << Leaf(Rom(3)) >>) >>) >>)]
      [] OTHER ->
            [xattr |-> NoPart, readable |-> FALSE, body |-> Leaf(Rom(1))]

\* ZipPart::from_zip: every member by index, and for a member that is an
\* archive itself every member of it by sub_index.
FromZip(f, ms) ==
    FlatSeq([i \in 1..Len(ms) |->
                << Entry(ms[i].part, ZipMember(f, <<i - 1>>)) >>
                \o [j \in 1..Len(ms[i].members) |->
                       Entry(ms[i].members[j].part, ZipMember(f, <<i - 1, j - 1>>))]])

\* RomSource::from_path that does not look at the attribute.
FromPathEntriesNoFastPath(f, kind) ==
    LET d == FileDesc(kind)
    IN  IF ~d.readable THEN <<>>
        ELSE << Entry(d.body.part, FileSource(f, FALSE)) >> \o FromZip(f, d.body.members)

\* RomSource::from_path(pb).unwrap_or_else(|_| Vec::new())
FromPathEntries(f, kind) ==
    LET d == FileDesc(kind)
    IN  IF d.xattr # NoPart THEN << Entry(d.xattr, FileSource(f, TRUE)) >>
        ELSE IF ~d.readable THEN <<>>
        ELSE << Entry(d.body.part, FileSource(f, FALSE)) >> \o FromZip(f, d.body.members)

\* .filter(|(part, _)| part_filter(part))
SelectEntries(es, keep) == SelectSeq(es, LAMBDA e : e.part \in keep)

\* A collect() that takes the items as the workers finished them.
CollectAsFinished(f) == [k \in 1..Len(f) |-> f[k][2]]

\* The parallel collect() keeps the order of the file list, whatever the
\* order in which the workers finished.
CollectOrder(f) ==
    [k \in 1..Len(f) |-> f[CHOOSE j \in 1..Len(f) : f[j][1] = k][2]]

\* rom_sources: the pairs of one root collected into a map
RootMap(f) ==
    LET es == FlatSeq(CollectOrder(f))
    IN CollectMap([i \in DOMAIN es |-> <<es[i].part, es[i].src>>])

\* acc.extend(item)
Extend(a, item) ==
    [k \in DOMAIN a \cup DOMAIN item |-> IF k \in DOMAIN item THEN item[k] ELSE a[k]]

\* multi_rom_sources enters rom_sources of the first root
Src_Start(roots, keep) ==
    /\ dop = "idle"
    /\ dop' = "rom_sources"
    /\ inp' = [roots |-> roots, keep |-> keep]
    /\ idx' = 1
    /\ pend' = 1..Len(RootFiles(roots[1]))
    /\ fin' = <<>>
    /\ acc' = <<>>
    /\ dout' = NoOut
    /\ UNCHANGED db
    /\ UNCHANGED <<wvars, cvars, hvars, idvars, wk>>

\* rom_sources: a worker finishes the file i of the current root
Src_Worker(i) ==
    /\ dop = "rom_sources"
    /\ i \in pend
    /\ pend' = pend \ {i}
    /\ fin' = Append(fin,
                 <<i, SelectEntries(
                          FromPathEntries(<<inp.roots[idx], i>>,
                                          RootFiles(inp.roots[idx])[i]),
                          inp.keep)>>)
    /\ UNCHANGED <<db, dop, inp, idx, acc, dout>>
    /\ UNCHANGED <<wvars, cvars, hvars, idvars, wk>>

\* rom_sources returns its map; multi_rom_sources folds it into the
\* accumulator and goes to the next root, or returns.
Src_Collect ==
    /\ dop = "rom_sources"
    /\ pend = {}
    /\ LET merged == IF idx = 1 THEN RootMap(fin) ELSE Extend(acc, RootMap(fin))
       IN /\ acc' = merged
          /\ IF idx < Len(inp.roots)
             THEN /\ idx' = idx + 1
                  /\ pend' = 1..Len(RootFiles(inp.roots[idx + 1]))
                  /\ fin' = <<>>
                  /\ UNCHANGED <<dop, dout>>
             ELSE /\ dout' = Returned(dop, "Ok", merged, "")
                  /\ dop' = "idle"
                  /\ UNCHANGED <<idx, pend, fin>>
    /\ UNCHANGED <<db, inp>>
    /\ UNCHANGED <<wvars, cvars, hvars, idvars, wk>>

\* -- subdir_files

\* What the walk of a root can meet: regular files on two devices, two of
\* them with the same inode number on different devices, and a directory.
WalkEntry(dev, i, file) == [dev |-> dev, ino |-> i, is_file |-> file]
WalkKinds ==
    {WalkEntry(1, 1, TRUE), WalkEntry(1, 2, TRUE), WalkEntry(2, 1, TRUE),
     WalkEntry(1, 3, FALSE)}

\* subdir_files(root) starts the walk; the entry at position k has path k.
Walk_Start(entries) ==
    /\ dop = "idle"
    /\ dop' = "subdir_files"
    /\ inp' = entries
    /\ idx' = 1
    /\ acc' = {}
    /\ pend' = {}
    /\ fin' = <<>>
    /\ dout' = NoOut
    /\ UNCHANGED db
    /\ UNCHANGED <<wvars, cvars, hvars, idvars, wk>>

\* One entry of the walk through
\* filter(|e| e.file_type().is_file() && files.insert(e.ino())),
\* or the end of the walk.
Walk_Step ==
    /\ dop = "subdir_files"
    /\ IF idx > Len(inp)
       THEN /\ dout' = Returned(dop, "Ok", fin, "")
            /\ dop' = "idle"
            /\ UNCHANGED <<idx, acc, fin>>
       ELSE /\ idx' = idx + 1
            /\ IF inp[idx].is_file /\ inp[idx].ino \notin acc
               THEN /\ acc' = acc \cup {inp[idx].ino}
                    /\ fin' = Append(fin, idx)
               ELSE UNCHANGED <<acc, fin>>
            /\ UNCHANGED <<dop, dout>>
    /\ UNCHANGED <<db, inp, pend>>
    /\ UNCHANGED <<wvars, cvars, hvars, idvars, wk>>

MaxReq == 2
MaxRoots == 2
MaxWalk == 2

WalkLists == UNION {[1..k -> WalkKinds] : k \in 0..MaxWalk}

NameLists == UNION {[1..k -> DbNames \cup {Unknown}] : k \in 0..MaxReq}
RootLists == UNION {[1..k -> RootNames] : k \in 1..MaxRoots}

DbNext ==
    \/ Db_RetainWorking
    \/ \E name \in DbNames \cup {Unknown} : Db_DisplayParts(name)
    \/ \E o \in {"validate_games", "required_parts"}, games \in NameLists : Db_Call(o, games)
    \/ Db_ValidateStep
    \/ Db_RequiredStep
    \/ \E S \in SUBSET (DbNames \cup {Unknown}) : Db_VerifyStart(S)
    \/ \E x \in DbNames \cup {Unknown} : Db_VerifyWorker(x)
    \/ Db_VerifyCollect
    \/ \E roots \in RootLists, keep \in Filters : Src_Start(roots, keep)
    \/ \E i \in 1..3 : Src_Worker(i)
    \/ Src_Collect
    \/ \E entries \in WalkLists : Walk_Start(entries)
    \/ Walk_Step

SpecDb == InitDb /\ [][DbNext]_vars

----------------------------------------------------------------------------
(* Properties of the catalog and of the RomSources builder (SpecDb) *)

DbReturned(o) == dop = "idle" /\ dout.op = o

\* The names reached from the set S through the devices of catalog entries.
DevStep(c, R) ==
    R \cup {d \in DbNames \cup {Unknown} :
               \E n \in R \cap DOMAIN c : d \in SetOf(c[n].devices)}
DevReach(c, S) == DevStep(c, DevStep(c, DevStep(c, S))) \cap DOMAIN c

\* C12: required_parts(games), when every name is in the catalog, returns
\* the union of the parts of each named game and of all the devices it
\* reaches, directly or through other devices.
C12_RequiredPartsTransitive ==
    (DbReturned("required_parts") /\ dout.status = "Ok") =>
        dout.value = UNION {SetOf(db[n].parts) : n \in DevReach(db, SetOf(inp))}

\* C13: the list verify_game returns for a name holds the failures of
\* Game::verify of that name first, and holds exactly the failures of the
\* names reached from it through devices, devices of devices included; a name
\* that is not a key of the catalog gives the empty list, at the top level
\* and as a device, and the call returns normally.
C13_VerifyGameRecursive ==
    DbReturned("verify") =>
        /\ dout.status = "Ok"
        /\ \A x \in DOMAIN dout.value :
              LET r == dout.value[x]
              IN /\ SetOf(r) = UNION {SetOf(GameVerify(db, n)) : n \in DevReach(db, {x})}
                 /\ x \notin DOMAIN db => r = <<>>
                 /\ x \in DOMAIN db =>
                       /\ Len(r) >= Len(GameVerify(db, x))
                       /\ SubSeq(r, 1, Len(GameVerify(db, x))) = GameVerify(db, x)
                       /\ \A i \in 1..Len(db[x].devices) :
                             db[x].devices[i] \notin DOMAIN db =>
                                 \A k \in 1..Len(r) : r[k].name[1] # db[x].devices[i]

\* A verify of m returned where m uses d and e, d uses e, and e is no
\* longer in the catalog.
C13_Witness ==
    /\ DbReturned("verify")
    /\ "m" \in inp /\ Unknown \in inp
    /\ {"m", "d"} \subseteq DOMAIN db /\ "e" \notin DOMAIN db
    /\ db["m"].devices = <<"d", "e">> /\ db["d"].devices = <<"e">>

\* A verify of m returned where m uses d, d uses e, all in the catalog.
C13_WitnessDeep ==
    /\ DbReturned("verify")
    /\ "m" \in inp
    /\ DOMAIN db = DbNames
    /\ db["m"].devices = <<"d">> /\ db["d"].devices = <<"e">>

\* C14: GameDb::verify returns a map whose keys are exactly the names of
\* the input set, and the value under each name is verify_game of that name,
\* in whatever order the workers finish.
C14_VerifyKeysAndValues ==
    DbReturned("verify") =>
        /\ DOMAIN dout.value = inp
        /\ \A x \in inp : dout.value[x] = VerifyGame(db, x)

\* A verify of three names returned whose workers finished e, then the
\* unknown name, then m, with different results for m and e.
C14_Witness ==
    /\ DbReturned("verify")
    /\ Len(fin) = 3
    /\ fin[1][1] = "e" /\ fin[2][1] = Unknown /\ fin[3][1] = "m"
    /\ fin[1][2] # <<>> /\ fin[3][2] # <<>> /\ fin[1][2] # fin[3][2]

\* C15: every name in the devices of a catalog entry is a key of the
\* catalog, in every state, retain_working included.
C15_DevicesAreKeys ==
    \A n \in DOMAIN db : \A d \in SetOf(db[n].devices) : d \in DOMAIN db

\* The first position of the request whose name is not a key of the catalog.
Absent(c, games) == {i \in DOMAIN games : games[i] \notin DOMAIN c}

\* C18: validate_games and required_parts return Ok exactly when every
\* requested name is a key of the catalog; otherwise they return
\* NoSuchSoftware with the first absent name of the request, having stopped
\* at that name, and return no parts.
C18_NoSuchSoftware ==
    (DbReturned("validate_games") \/ DbReturned("required_parts")) =>
        IF Absent(db, inp) = {}
        THEN dout.status = "Ok" /\ idx = Len(inp) + 1
        ELSE /\ dout.status = "NoSuchSoftware"
             /\ dout.name = inp[Min(Absent(db, inp))]
             /\ idx = Min(Absent(db, inp))
             /\ dout.value = {}

\* required_parts returned NoSuchSoftware for the second name after it
\* had gathered the parts of the first.
C18_Witness ==
    /\ DbReturned("required_parts")
    /\ dout.status = "NoSuchSoftware"
    /\ Len(inp) = 2 /\ idx = 2
    /\ acc # {}

\* validate_games returned NoSuchSoftware for the first of two absent names.
C18_WitnessValidate ==
    /\ DbReturned("validate_games")
    /\ dout.status = "NoSuchSoftware"
    /\ Len(inp) = 2 /\ idx = 1 /\ inp[1] # inp[2] /\ inp[2] \notin DOMAIN db

\* The entries cataloged for a list of roots: (root position, file position,
\* entry position) of every entry whose Part passes the filter.
Cataloged(roots, keep) ==
    {t \in (1..Len(roots)) \X (1..3) \X (1..5) :
        /\ t[2] <= Len(RootFiles(roots[t[1]]))
        /\ t[3] <= Len(FromPathEntries(<<roots[t[1]], t[2]>>, RootFiles(roots[t[1]])[t[2]]))
        /\ FromPathEntries(<<roots[t[1]], t[2]>>, RootFiles(roots[t[1]])[t[2]])[t[3]].part \in keep}
EntryAt(roots, t) ==
    FromPathEntries(<<roots[t[1]], t[2]>>, RootFiles(roots[t[1]])[t[2]])[t[3]]
Later(s, t) ==
    \/ s[1] > t[1]
    \/ s[1] = t[1] /\ s[2] > t[2]
    \/ s[1] = t[1] /\ s[2] = t[2] /\ s[3] >= t[3]

\* C19: the map built from a list of roots has exactly the Parts of the
\* cataloged entries that pass the filter as keys, and under each Part the
\* source of the entry of that Part that comes last: last root, then last
\* file of the root, then last entry of the file.
C19_LaterSourceKept ==
    DbReturned("rom_sources") =>
        LET cat == Cataloged(inp.roots, inp.keep)
        IN /\ DOMAIN dout.value = {EntryAt(inp.roots, t).part : t \in cat}
           /\ \A p \in DOMAIN dout.value :
                 \E t \in cat :
                    /\ EntryAt(inp.roots, t).part = p
                    /\ dout.value[p] = EntryAt(inp.roots, t).src
                    /\ \A s \in cat : EntryAt(inp.roots, s).part = p => Later(t, s)

\* A map of two roots returned where the workers of the last root finished
\* in the reverse of the file order, and one Part has sources in both roots.
C19_Witness ==
    /\ DbReturned("rom_sources")
    /\ inp.roots = <<"A", "B">>
    /\ inp.keep = SrcParts
    /\ Len(fin) = 3 /\ fin[1][1] = 3 /\ fin[2][1] = 2 /\ fin[3][1] = 1
    /\ dout.value[Rom(1)] = FileSource(<<"B", 3>>, FALSE)

\* The archive members of a file at nesting depth 1 and 2, as entries.
MemberEntries(f, d) ==
    {Entry(d.body.members[i].part, ZipMember(f, <<i - 1>>)) :
        i \in 1..Len(d.body.members)}
    \cup UNION {{Entry(d.body.members[i].members[j].part, ZipMember(f, <<i - 1, j - 1>>)) :
                    j \in 1..Len(d.body.members[i].members)} :
                 i \in 1..Len(d.body.members)}

C28_OnePathPerFile ==
    DbReturned("subdir_files") =>
        /\ \A k \in 1..Len(dout.value) : inp[dout.value[k]].is_file
        /\ \A i \in 1..Len(inp) :
              inp[i].is_file =>
                  Cardinality({k \in 1..Len(dout.value) :
                                  /\ inp[dout.value[k]].dev = inp[i].dev
                                  /\ inp[dout.value[k]].ino = inp[i].ino}) = 1

----------------------------------------------------------------------------
(* GameDb::verify_game, one call of the recursion at a time (SpecVg) *)

\* The calls a call of verify_game on a cataloged game makes, ahead of the
\* calls that were already pending: one per entry of game.devices, in order.
PushDevicesOnce(devs, stack) ==
    SelectSeq(devs, LAMBDA d : \A i \in 1..Len(stack) : stack[i] # d) \o stack

PushDevices(devs, stack) == devs \o stack

\* self.verify_game(root, game_name) is called; inp is the stack of pending
\* calls and fin the games whose Game::verify has run, in order.
VG_Start(name) ==
    /\ dop = "idle"
    /\ dop' = "verify_game"
    /\ inp' = <<name>>
    /\ idx' = 0
    /\ acc' = {}
    /\ pend' = {}
    /\ fin' = <<>>
    /\ dout' = Returned("none", "none", <<>>, name)
    /\ UNCHANGED db
    /\ UNCHANGED <<wvars, cvars, hvars, idvars, wk>>

\* The next pending call: a cataloged game is verified and its devices are
\* called in turn; any other name returns an empty Vec.
VG_Step ==
    /\ dop = "verify_game"
    /\ inp # <<>>
    /\ IF Head(inp) \in DOMAIN db
       THEN /\ fin' = Append(fin, Head(inp))
            /\ inp' = PushDevices(db[Head(inp)].devices, Tail(inp))
       ELSE /\ inp' = Tail(inp)
            /\ UNCHANGED fin
    /\ UNCHANGED <<db, dop, idx, acc, pend, dout>>
    /\ UNCHANGED <<wvars, cvars, hvars, idvars, wk>>

\* The outermost call returns.
VG_Return ==
    /\ dop = "verify_game"
    /\ inp = <<>>
    /\ dop' = "idle"
    /\ dout' = Returned("verify_game", "Ok", fin, dout.name)
    /\ UNCHANGED <<db, inp, idx, acc, pend, fin>>
    /\ UNCHANGED <<wvars, cvars, hvars, idvars, wk>>

VgNext ==
    \/ Db_RetainWorking
    \/ \E name \in DbNames \cup {Unknown} : VG_Start(name)
    \/ VG_Step
    \/ VG_Return

\* A call that was made runs to its end: the thread is not stopped.
SpecVg == InitDb /\ [][VgNext]_vars /\ WF_vars(VG_Step) /\ WF_vars(VG_Return)

\* The paths of cataloged games from a game along devices entries.
DevicePaths(c, from) ==
    {p \in UNION {[1..k -> DOMAIN c] : k \in 1..Cardinality(DOMAIN c)} :
        /\ p[1] = from
        /\ \A i \in 1..(Len(p) - 1) : p[i + 1] \in SetOf(c[p[i]].devices)}

Visits(log, n) == Cardinality({i \in 1..Len(log) : log[i] = n})

\* C29: verify_game terminates, and when it returns every game was verified
\* once for each path by which it is reachable from the requested game.
C29_VerifyGameTerminates ==
    /\ (dop = "verify_game") ~> (dop = "idle")
    /\ [](DbReturned("verify_game") =>
             \A n \in DbNames \cup {Unknown} :
                 Visits(dout.value, n) =
                     Cardinality({p \in DevicePaths(db, dout.name) :
                                     p[Len(p)] = n}))

\* m uses d and e, and d uses e: e is verified twice.
C29_Witness ==
    /\ DbReturned("verify_game")
    /\ dout.name = "m"
    /\ Visits(dout.value, "e") = 2
    /\ Visits(dout.value, "d") = 1

----------------------------------------------------------------------------
(* Game::verify with its parallel per-part workers (SpecPar) *)

\* The game the call verifies: two manifest entries, in a directory that
\* can hold a third name.
ParGame == "g3"
ParParts == [n \in {"a", "b"} |-> IF n = "a" THEN P1 ELSE P2]
ParNames == {"a", "b", "c"}
ParPaths == {<<ParGame, n>> : n \in ParNames}
ParOrder == <<"a", "b", "c">>
MaxPar == 1

\* A cache key taken from the path instead of the file.
FileIdByPath(f, p) == CHOOSE k \in 1..Len(ParOrder) : ParOrder[k] = p[2]

\* FileId::new(path): the device and inode of the file at the path.
FileIdNew(f, p) == f[p]

\* The directory before the call: each name absent, a readable body, or a
\* file that cannot be opened; b possibly a hard link of a; attributes and
\* PART_CACHE entries left by earlier calls, current or stale.
ParWorld ==
    \E kd \in [ParNames -> InitKinds], lk \in BOOLEAN, x \in BOOLEAN,
       xa \in [1..2 -> Parts \cup {NoPart}],
       ca \in [1..2 -> Parts \cup {NoPart}] :
        LET home(n) == IF n = "a" THEN 1
                       ELSE IF n = "b" THEN (IF lk THEN 1 ELSE 2) ELSE 3
            owner(k) == {n \in ParNames : kd[n] # "none" /\ home(n) = k}
        IN  /\ lk => kd["a"] # "none" /\ kd["b"] = kd["a"]
            /\ kd["c"] \in {"none", "c1"}
            /\ \A k \in 1..2 :
                  /\ owner(k) = {} => xa[k] = NoPart /\ ca[k] = NoPart
                  /\ xa[k] # NoPart =>
                        x /\ \A n \in owner(k) : kd[n] # "locked"
            /\ fs = [p \in ParPaths |->
                        IF kd[p[2]] = "none" THEN 0 ELSE home(p[2])]
            /\ ino = [k \in Inodes |->
                        IF k <= 3 /\ owner(k) # {}
                        THEN [InitFile(kd[CHOOSE n \in owner(k) : TRUE])
                                 EXCEPT !.xattr = IF k <= 2 THEN xa[k] ELSE NoPart]
                        ELSE NoFile]
            /\ partCache = [k \in Inodes |-> IF k <= 2 THEN ca[k] ELSE NoPart]
            /\ dirs = {ParGame}
            /\ rom_sources = [p \in Parts |-> NoSource]
            /\ xattrOK = x

InitPar ==
    /\ ParWorld
    /\ pc = "idle"
    /\ game = ""
    /\ todo = {}
    /\ files_on_disk = {}
    /\ failures = {}
    /\ extras = NoExtras
    /\ to_cleanup = {}
    /\ ret = NoRet
    /\ ncalls = 0
    /\ nfaults = 0
    /\ prev = NoRet
    /\ pre = [fs |-> fs, ino |-> ino, src |-> rom_sources, dirs |-> dirs,
              nf |-> 0, cache |-> partCache]
    /\ ev = {}
    /\ extrasIn = {}
    /\ copied = [p \in Parts |-> 0]
    /\ linkFailed = FALSE
    /\ wk = <<>>
    /\ IdIdle
    /\ DbIdle

NoOutcome(n) == [kind |-> "None", name |-> n, part |-> NoPart, actual |-> NoPart]

\* A worker of the par_iter before it ran: at is its position, took the name
\* whose pathbuf it removed from the map, k its file_id, part what
\* from_cached_path gave it, hashed whether it read the file, out its result.
NewWorker(n) ==
    [at |-> "remove", took |-> "", k |-> 0, part |-> NoPart, hashed |-> FALSE,
     out |-> NoOutcome(n)]

\* collect() has every item of the par_iter.
WorkersDoneAlways(w) == TRUE

WorkersDone(w) == \A n \in DOMAIN w : w[n].at = "done"

\* Game::verify up to the par_iter: the names of the regular files of the
\* directory go into files_on_disk.
Par_Start ==
    /\ pc = "idle"
    /\ ncalls < MaxPar
    /\ ncalls' = ncalls + 1
    /\ pc' = "par"
    /\ game' = ParGame
    /\ files_on_disk' = {n \in ParNames : IsFile(fs, ino, <<ParGame, n>>)}
    /\ failures' = {}
    /\ wk' = [n \in DOMAIN ParParts |-> NewWorker(n)]
    /\ prev' = ret
    /\ pre' = [fs |-> fs, ino |-> ino, src |-> rom_sources, dirs |-> dirs,
               nf |-> nfaults, cache |-> partCache]
    /\ ev' = {}
    /\ extrasIn' = {}
    /\ UNCHANGED <<wvars, todo, extras, to_cleanup, ret, nfaults, copied,
                   linkFailed, idvars, dbvars>>

\* files_on_disk.remove(name): Some goes on to verify_cached, None is Missing.
PW_Remove(n) ==
    /\ pc = "par"
    /\ wk[n].at = "remove"
    /\ IF n \in files_on_disk
       THEN /\ files_on_disk' = files_on_disk \ {n}
            /\ wk' = [wk EXCEPT ![n].at = "get", ![n].took = n]
       ELSE /\ wk' = [wk EXCEPT ![n].at = "done",
                                ![n].out = Missing(n, ParParts[n])]
            /\ UNCHANGED files_on_disk
    /\ UNCHANGED <<wvars, pc, game, todo, failures, extras, to_cleanup, ret,
                   hvars, idvars, dbvars>>

\* from_cached_path: FileId::new(path) and map.get(&file_id).
PW_Get(n) ==
    /\ pc = "par"
    /\ wk[n].at = "get"
    /\ LET k == FileIdNew(fs, <<ParGame, wk[n].took>>)
       IN  IF partCache[k] # NoPart
           THEN wk' = [wk EXCEPT ![n].at = "done", ![n].k = k,
                                 ![n].part = partCache[k],
                                 ![n].out = VerifyOutcome(ParParts[n], partCache[k], n)]
           ELSE wk' = [wk EXCEPT ![n].at = "xattr", ![n].k = k]
    /\ UNCHANGED <<wvars, cvars, hvars, idvars, dbvars>>

\* from_disk_cached_path: Part::get_xattr(path).
PW_Xattr(n) ==
    /\ pc = "par"
    /\ wk[n].at = "xattr"
    /\ LET x == GetXattr(ino, fs[<<ParGame, wk[n].took>>])
       IN  IF x # NoPart
           THEN wk' = [wk EXCEPT ![n].at = "insert", ![n].part = x]
           ELSE wk' = [wk EXCEPT ![n].at = "hash"]
    /\ UNCHANGED <<wvars, cvars, hvars, idvars, dbvars>>

\* from_disk_cached_path: Self::from_path(path)?
PW_Hash(n) ==
    /\ pc = "par"
    /\ wk[n].at = "hash"
    /\ LET h == FromPath(fs, ino, <<ParGame, wk[n].took>>)
       IN  IF h = IOErr
           THEN wk' = [wk EXCEPT ![n].at = "done", ![n].out = Error(n)]
           ELSE wk' = [wk EXCEPT ![n].at = "setx", ![n].part = h,
                                 ![n].hashed = TRUE]
    /\ UNCHANGED <<wvars, cvars, hvars, idvars, dbvars>>

\* from_disk_cached_path: part.set_xattr(path).
PW_SetXattr(n) ==
    /\ pc = "par"
    /\ wk[n].at = "setx"
    /\ ino' = SetXattr(ino, fs[<<ParGame, wk[n].took>>], wk[n].part)
    /\ wk' = [wk EXCEPT ![n].at = "insert"]
    /\ UNCHANGED <<fs, dirs, partCache, rom_sources, xattrOK, cvars, hvars,
                   idvars, dbvars>>

\* from_cached_path: map.insert(file_id, part.clone()); Ok(part), and what
\* Part::verify makes of it.
PW_Insert(n) ==
    /\ pc = "par"
    /\ wk[n].at = "insert"
    /\ partCache' = [partCache EXCEPT ![wk[n].k] = wk[n].part]
    /\ wk' = [wk EXCEPT ![n].at = "done",
                        ![n].out = VerifyOutcome(ParParts[n], wk[n].part, n)]
    /\ UNCHANGED <<fs, dirs, ino, rom_sources, xattrOK, cvars, hvars,
                   idvars, dbvars>>

\* The par_iter is collected, the leftover names become Extra, and
\* Game::verify returns.
Par_Collect ==
    /\ pc = "par"
    /\ WorkersDone(wk)
    /\ pc' = "idle"
    /\ ret' = [op |-> "verify", game |-> ParGame, status |-> "Ok",
               failures |->
                   {wk[n].out : n \in {m \in DOMAIN wk :
                                          wk[m].out.kind \notin {"Ok", "None"}}}
                       \cup {Extra(n, FromPath(fs, ino, <<ParGame, n>>)) :
                                n \in files_on_disk},
               wrote |-> FALSE]
    /\ files_on_disk' = {}
    /\ UNCHANGED <<wvars, game, todo, failures, extras, to_cleanup, hvars,
                   idvars, dbvars, wk>>

ParNext ==
    \/ Par_Start
    \/ \E n \in DOMAIN ParParts : PW_Remove(n)
    \/ \E n \in DOMAIN ParParts : PW_Get(n)
    \/ \E n \in DOMAIN ParParts : PW_Xattr(n)
    \/ \E n \in DOMAIN ParParts : PW_Hash(n)
    \/ \E n \in DOMAIN ParParts : PW_SetXattr(n)
    \/ \E n \in DOMAIN ParParts : PW_Insert(n)
    \/ Par_Collect

SpecPar == InitPar /\ [][ParNext]_vars

----------------------------------------------------------------------------
(* Properties of the parallel Game::verify (SpecPar) *)

ParPath(n) == <<ParGame, wk[n].took>>

\* The worker of n called from_cached_path and got a Part back.
GotPart(n) == wk[n].took # "" /\ wk[n].at = "done" /\ wk[n].part # NoPart

\* C24: concurrent from_cached_path calls on the same FileId return the
\* same Part, and PART_CACHE holds that Part for the FileId from the first
\* return on, however the get and insert steps of the calls interleave.
C24_SamePartForFileId ==
    \A n1 \in DOMAIN wk, n2 \in DOMAIN wk :
        GotPart(n1) =>
            /\ partCache[fs[ParPath(n1)]] = wk[n1].part
            /\ (GotPart(n2) /\ fs[ParPath(n1)] = fs[ParPath(n2)])
                   => wk[n1].part = wk[n2].part

\* a and b are one file, both calls missed PART_CACHE and the attribute and
\* hashed the file, and both returned.
C24_Witness ==
    /\ pc = "par"
    /\ GotPart("a") /\ GotPart("b")
    /\ fs[ParPath("a")] = fs[ParPath("b")]
    /\ wk["a"].hashed /\ wk["b"].hashed
    /\ partCache[fs[ParPath("a")]] = wk["b"].part

\* Game::verify run by one thread, the manifest entries in the given order.
RECURSIVE SeqFailures(_, _, _, _, _)
SeqFailures(order, f, i, c, files) ==
    IF order = <<>>
    THEN {Extra(n, FromPath(f, i, <<ParGame, n>>)) : n \in files}
    ELSE LET n == Head(order)
             r == FromCachedPath(f, i, c, <<ParGame, n>>)
             o == VerifyOutcome(ParParts[n], r.part, n)
         IN  IF n \in files
             THEN (IF o.kind = "Ok" THEN {} ELSE {o})
                      \cup SeqFailures(Tail(order), f, r.ino, r.cache, files \ {n})
             ELSE {Missing(n, ParParts[n])}
                      \cup SeqFailures(Tail(order), f, i, c, files)

ParReturned == pc = "idle" /\ ret.op = "verify" /\ ret.game = ParGame

\* C25: every file name is removed from files_on_disk by at most one worker,
\* a name a worker removed is never reported as Extra, the call returns only
\* when every worker has finished, and the failures it returns are those of
\* a sequential run over the same directory, in either order of the entries.
C25_ParallelAsSequential ==
    /\ \A n1 \in DOMAIN wk, n2 \in DOMAIN wk :
          (wk[n1].took # "" /\ wk[n1].took = wk[n2].took) => n1 = n2
    /\ \A n \in DOMAIN wk : wk[n].took # "" => wk[n].took \notin files_on_disk
    /\ ParReturned =>
          /\ \A n \in DOMAIN wk : wk[n].at = "done"
          /\ \A x \in ret.failures :
                x.kind = "Extra" => \A n \in DOMAIN wk : wk[n].took # x.name
          /\ \A order \in {<<"a", "b">>, <<"b", "a">>} :
                ret.failures =
                    SeqFailures(order, pre.fs, pre.ino, pre.cache,
                                {n \in ParNames : IsFile(pre.fs, pre.ino, <<ParGame, n>>)})

\* The call returned a Bad entry of one worker, nothing for the other, whose
\* file was right, and the Extra of the third file.
C25_Witness ==
    /\ ParReturned
    /\ wk["a"].took = "a" /\ wk["a"].out.kind = "Ok"
    /\ wk["b"].took = "b" /\ wk["b"].out.kind = "Bad"
    /\ wk["b"].hashed
    /\ \E x \in ret.failures : x.kind = "Extra" /\ x.name = "c"
    /\ Cardinality(ret.failures) = 2

----------------------------------------------------------------------------
(* Game::rename with file_move (SpecRn) *)

\* The game the call renames: a and b expect the same Part, and the
\* directory can hold a third name.
RnGame == "g4"
RnParts == [n \in {"a", "b"} |-> P1]
RnNames == {"a", "b", "c"}
RnPaths == {<<RnGame, n>> : n \in RnNames}
RnOrder == <<"a", "b", "c">>
MaxRn == 2

\* The maps `parts` can be: self.parts collected into a map keyed by Part,
\* a later name replacing an earlier one of the same Part, in the iteration
\* order of self.parts (a HashMap).
RnPartsMaps ==
    {m \in [Parts -> {""} \cup DOMAIN RnParts] :
        \A p \in Parts :
            IF \E n \in DOMAIN RnParts : RnParts[n] = p
            THEN m[p] \in DOMAIN RnParts /\ RnParts[m[p]] = p
            ELSE m[p] = ""}

\* file_move(source, target): a rename when the two paths differ and nothing
\* is at the target, else nothing; the error of rename is passed up.
FileMove(f, i, from, to, fault) ==
    IF from # to /\ f[to] = 0
    THEN IF fault = "rename"
         THEN [ok |-> FALSE, moved |-> FALSE, fs |-> f, ino |-> i]
         ELSE [ok |-> TRUE, moved |-> TRUE,
               fs |-> Rename(f, i, from, to).fs, ino |-> Rename(f, i, from, to).ino]
    ELSE [ok |-> TRUE, moved |-> FALSE, fs |-> f, ino |-> i]

\* The directory before the call: each name absent, a readable body of
\* either content, or a file that cannot be opened.
RnWorld ==
    \E kd \in [RnNames -> InitKinds], d \in BOOLEAN :
        LET home(n) == CHOOSE k \in 1..Len(RnOrder) : RnOrder[k] = n
        IN  /\ fs = [p \in RnPaths |->
                        IF kd[p[2]] = "none" THEN 0 ELSE home(p[2])]
            /\ ino = [k \in Inodes |->
                        IF k <= Len(RnOrder) THEN InitFile(kd[RnOrder[k]])
                        ELSE NoFile]
            /\ dirs = IF d \/ \E n \in RnNames : kd[n] # "none"
                      THEN {RnGame} ELSE {}
            /\ partCache = [k \in Inodes |-> NoPart]
            /\ rom_sources = [p \in Parts |-> NoSource]
            /\ xattrOK = TRUE

InitRn ==
    /\ RnWorld
    /\ pc = "idle"
    /\ game = ""
    /\ todo = {}
    /\ files_on_disk = {}
    /\ failures = {}
    /\ extras = NoExtras
    /\ to_cleanup = {}
    /\ ret = NoRet
    /\ ncalls = 0
    /\ nfaults = 0
    /\ prev = NoRet
    /\ pre = [fs |-> fs, ino |-> ino, src |-> rom_sources, dirs |-> dirs,
              nf |-> 0, parts |-> NoExtras]
    /\ ev = {}
    /\ extrasIn = {}
    /\ copied = [p \in Parts |-> 0]
    /\ linkFailed = FALSE
    /\ wk = <<>>
    /\ IdIdle
    /\ DbIdle

RnReturn(st) ==
    /\ pc' = "idle"
    /\ ret' = [op |-> "rename", game |-> RnGame, status |-> st, failures |-> {},
               wrote |-> (ev' # {})]
    /\ todo' = {}

\* Game::rename up to its loop: read_dir (whose failure returns Ok(())) and
\* the map `parts`; todo holds the entries read_dir will yield.
Rn_Start(m) ==
    /\ pc = "idle"
    /\ ncalls < MaxRn
    /\ ncalls' = ncalls + 1
    /\ game' = RnGame
    /\ prev' = ret
    /\ pre' = [fs |-> fs, ino |-> ino, src |-> rom_sources, dirs |-> dirs,
               nf |-> nfaults, parts |-> m]
    /\ ev' = {}
    /\ extrasIn' = {}
    /\ IF RnGame \in dirs
       THEN /\ pc' = "rename"
            /\ todo' = {n \in RnNames : fs[<<RnGame, n>>] # 0}
            /\ UNCHANGED ret
       ELSE RnReturn("Ok")
    /\ UNCHANGED <<wvars, files_on_disk, failures, extras, to_cleanup, nfaults,
                   copied, linkFailed, idvars, dbvars, wk>>

\* One entry of the directory: identified by Part::from_path and, when the
\* map has its Part, moved to the path the map gives. A name the move
\* created may or may not be yielded later by the same read_dir.
Rn_Entry(n, fault, again) ==
    LET from == <<RnGame, n>>
        part == FromPath(fs, ino, from)
        to == <<RnGame, pre.parts[part]>>
        mv == FileMove(fs, ino, from, to, fault)
        hit == part # IOErr /\ pre.parts[part] # ""
    IN  /\ pc = "rename"
        /\ n \in todo
        /\ IF hit
           THEN /\ fault = "rename" => (~mv.ok /\ nfaults < MaxFaults)
                /\ nfaults' = IF mv.ok THEN nfaults ELSE nfaults + 1
                /\ fs' = mv.fs
                /\ ino' = mv.ino
                /\ ev' = IF mv.moved
                         THEN ev \cup {Event("rename", to[2], n)} ELSE ev
                /\ again => mv.moved
                /\ IF mv.ok
                   THEN /\ todo' = (todo \ {n}) \cup (IF again THEN {to[2]} ELSE {})
                        /\ UNCHANGED <<pc, ret>>
                   ELSE RnReturn("Err")
           ELSE /\ fault = "none"
                /\ ~again
                /\ todo' = todo \ {n}
                /\ UNCHANGED <<fs, ino, nfaults, ev, pc, ret>>
        /\ UNCHANGED <<dirs, partCache, rom_sources, xattrOK, game, files_on_disk,
                       failures, extras, to_cleanup, ncalls, prev, pre, extrasIn,
                       copied, linkFailed, idvars, dbvars, wk>>

\* The directory is exhausted: Ok(()).
Rn_Done ==
    /\ pc = "rename"
    /\ todo = {}
    /\ UNCHANGED <<wvars, game, files_on_disk, failures, extras, to_cleanup,
                   hvars, idvars, dbvars, wk>>
    /\ RnReturn("Ok")

RnNext ==
    \/ \E m \in RnPartsMaps : Rn_Start(m)
    \/ \E n \in RnNames, fault \in {"none", "rename"}, again \in BOOLEAN :
           Rn_Entry(n, fault, again)
    \/ Rn_Done

SpecRn == InitRn /\ [][RnNext]_vars

\* Game::rename returned, Ok or Err.
RnReturned == pc = "idle" /\ ret.op = "rename"

\* The files of the directory: the inodes that have a name in it.
RnFiles(f) == {f[p] : p \in RnPaths} \ {0}

\* C32: Game::rename with file_move deletes no file, overwrites none and
\* changes no content, and a file that was at a manifest name expecting its
\* identity is still at that name, also when a and b expect the same Part.
C32_RenameKeepsCorrectFiles ==
    RnReturned =>
        /\ RnFiles(fs) = RnFiles(pre.fs)
        /\ \A k \in RnFiles(fs) : ino[k] = pre.ino[k]
        /\ \A n \in DOMAIN RnParts :
              (/\ pre.fs[<<RnGame, n>>] # 0
               /\ FromPath(pre.fs, pre.ino, <<RnGame, n>>) = RnParts[n])
              => fs[<<RnGame, n>>] = pre.fs[<<RnGame, n>>]

\* The first half alone: no file is deleted, overwritten or rewritten.
C32_NoFileLost ==
    RnReturned =>
        /\ RnFiles(fs) = RnFiles(pre.fs)
        /\ \A k \in RnFiles(fs) : ino[k] = pre.ino[k]

----------------------------------------------------------------------------
(* The run: sequential calls sharing RomSources and PART_CACHE *)

Next ==
    \/ \E g \in Games : AV_Start(g)
    \/ \E n \in todo, fault \in FaultKinds : AV_Present(n, fault)
    \/ \E n \in todo, fault \in FaultKinds : AV_Absent(n, fault)
    \/ AV_Leftover
    \/ \E f \in to_cleanup, fault \in {"none", "unlink", "rename"} : CleanupOne(f, fault)
    \/ \E p \in Parts, fault \in {"none", "unlink"} : CleanupUnlink(p, fault)
    \/ CleanupDone
    \/ \E g \in Games : Verify(g)

Spec == Init /\ [][Next]_vars

----------------------------------------------------------------------------
(* Properties of the reconciler and the identity cache (Spec) *)

AddReturned == pc = "idle" /\ ret.op = "add"
AddReturnedOk == AddReturned /\ ret.status = "Ok"
Exists(p) == fs[p] # 0
FailureFor(n, kinds) == \E f \in ret.failures : f.name = n /\ f.kind \in kinds

\* The identities of the directory before the call.
PreIdentity(g, n) == FromPath(pre.fs, pre.ino, <<g, n>>)
PreFiles(g) ==
    IF g \in pre.dirs THEN {n \in NamesOf(g) : IsFile(pre.fs, pre.ino, <<g, n>>)} ELSE {}
NoFaultInCall == nfaults = pre.nf

\* C1: when add_and_verify returns Ok(failures), every manifest entry is
\* either a file of the expected identity at target_dir/<game>/name, or
\* named by a Missing, Bad or Error failure of the list.
C1_EveryPartAccounted ==
    AddReturnedOk =>
        \A n \in DOMAIN Manifest(ret.game) :
            \/ /\ Exists(<<ret.game, n>>)
               /\ FromPath(fs, ino, <<ret.game, n>>) = Manifest(ret.game)[n]
            \/ FailureFor(n, {"Missing", "Bad", "Error"})

C1_Witness ==
    /\ AddReturnedOk
    /\ ret.game = "g1"
    /\ \E e \in ev : e.op = "rename" /\ e.name = "a"
    /\ FromPath(fs, ino, <<"g1", "a">>) = P1
    /\ ret.failures # {}

C1_WitnessFailure ==
    /\ AddReturnedOk
    /\ ret.game = "g2"
    /\ FailureFor("a", {"Bad"})
    /\ FailureFor("b", {"Missing"})

\* C2: cache transparency: for every path and every expected part,
\* verify_cached and verify_uncached have the same outcome (stated for the
\* runs in which no system call has failed).
C2_CacheTransparency ==
    nfaults = 0 =>
    \A p \in FsPaths, e \in Parts :
        VerifyCached(e, fs, ino, partCache, p[1], p[2])
            = VerifyUncached(e, fs, ino, p[1], p[2])

\* C3: a second add_and_verify of the same game right after a first that
\* returned Ok with no failure returns Ok with no failure and writes nothing
\* (stated for the runs in which no system call has failed).
C3_SecondRunIdle ==
    (/\ AddReturned
     /\ nfaults = 0
     /\ prev.op = "add" /\ prev.game = ret.game
     /\ prev.status = "Ok" /\ prev.failures = {})
        => (ret.status = "Ok" /\ ret.failures = {} /\ ~ret.wrote)

\* C4: a manifest file of the wrong identity, with no source for the
\* expected part and no identified extra of that part in the directory, is
\* still there with its content when add_and_verify returns, and the Bad
\* failure is in the returned list.
C4_NoSpuriousDeletion ==
    AddReturned =>
        \A n \in DOMAIN Manifest(ret.game) :
            LET g == ret.game
                part == Manifest(g)[n]
            IN  (/\ n \in PreFiles(g)
                 /\ PreIdentity(g, n) \notin {IOErr, part}
                 /\ pre.src[part] = NoSource
                 /\ \A x \in PreFiles(g) \ DOMAIN Manifest(g) : PreIdentity(g, x) # part)
                    => /\ fs[<<g, n>>] = pre.fs[<<g, n>>]
                       /\ ino[fs[<<g, n>>]].content = pre.ino[pre.fs[<<g, n>>]].content
                       /\ ret.status = "Ok"
                       /\ \E f \in ret.failures :
                              f.kind = "Bad" /\ f.name = n /\ f.part = part

C4_Witness ==
    /\ AddReturnedOk
    /\ ret.game = "g1"
    /\ PreIdentity("g1", "a") = P2
    /\ pre.src[P1] = NoSource
    /\ PreIdentity("g1", "b") = P2
    /\ FailureFor("a", {"Bad"})
    /\ ~Exists(<<"g1", "b">>)

\* What the call did with the file it found at name x.
Renamed(x) == \E e \in ev : e.op = "rename" /\ e.from = x
Unlinked(x) == \E e \in ev : e.op = "unlink" /\ e.name = x
Reported(x) == \E f \in ret.failures : f.kind = "Extra" /\ f.name = x

\* C5: every identified extra that entered the cleanup pass is, at return,
\* exactly one of: renamed onto a failure's path, unlinked, or reported as
\* an Extra failure.
C5_ExtrasAccounted ==
    AddReturnedOk =>
        \A x \in extrasIn :
            /\ Renamed(x) \/ Unlinked(x) \/ Reported(x)
            /\ ~(Renamed(x) /\ Unlinked(x))
            /\ ~(Renamed(x) /\ Reported(x))
            /\ ~(Unlinked(x) /\ Reported(x))

\* The directory of g held one file, b, no manifest name, of the identity
\* the manifest expects at a.
SoleExtra(g, a, b) ==
    /\ a \in DOMAIN Manifest(g)
    /\ b \in NamesOf(g) \ DOMAIN Manifest(g)
    /\ PreFiles(g) = {b}
    /\ PreIdentity(g, b) = Manifest(g)[a]

RenamedOnto(g, a, b) ==
    /\ fs[<<g, a>>] = pre.fs[<<g, b>>]
    /\ fs[<<g, b>>] = 0
    /\ ino[fs[<<g, a>>]].content = pre.ino[pre.fs[<<g, b>>]].content

CachedIdentity(g, n) == FromCachedPath(fs, ino, partCache, <<g, n>>).part
OnDisk(g, n) == g \in dirs /\ IsFile(fs, ino, <<g, n>>)

C7_WitnessAbsentDir ==
    /\ pc = "idle" /\ ret.op = "verify" /\ ret.game = "g2"
    /\ "g2" \notin dirs
    /\ ret.failures = {Missing("a", P1), Missing("b", P1)}

\* C10 as the specification states it: during a run no Part is written by a full byte copy more
\* than once.
C10_OneCopyAsStated == \A p \in Parts : copied[p] <= 1

\* C10: as long as no hard_link between two files of the target
\* device has failed, no Part is copied more than once, and once a Part has
\* been copied RomSources names a file of the target tree for it, from which
\* the later names are linked.
C10_OneCopy ==
    ~linkFailed =>
        \A p \in Parts :
            /\ copied[p] <= 1
            /\ copied[p] = 1 =>
                  rom_sources[p].kind = "File" /\ rom_sources[p].path \in TargetPaths

C10_Witness ==
    /\ pc = "idle"
    /\ ~linkFailed
    /\ copied[P1] = 1
    /\ \E g \in {"g2"}, h \in {"g1"} :
          /\ fs[<<g, "a">>] # 0
          /\ fs[<<g, "a">>] = fs[<<g, "b">>]
          /\ fs[<<g, "a">>] = fs[<<h, "a">>]

\* The names the running (or last) call linked or copied from RomSources.
Materialized(how) == {e.name : e \in {x \in ev : x.op \in how}}

\* C11: where extended attributes are supported, every target that
\* add_and_verify linked or copied from a source carries the expected Part
\* in user.emupart, also when the write was skipped for a source flagged
\* has_xattr.
C11_XattrAfterMaterialize ==
    xattrOK =>
        \A n \in Materialized({"link", "copy"}) :
            /\ fs[<<game, n>>] # 0
            /\ GetXattr(ino, fs[<<game, n>>]) = Manifest(game)[n]

C11_Witness ==
    /\ AddReturnedOk
    /\ xattrOK
    /\ pre.src[P1] = FileSource(PoolPath, TRUE)
    /\ "a" \in Materialized({"link"})
    /\ PreIdentity(ret.game, "a") = P2
    /\ GetXattr(ino, fs[<<ret.game, "a">>]) = P1

C11_WitnessCopy ==
    /\ AddReturnedOk
    /\ xattrOK
    /\ "a" \in Materialized({"copy"})
    /\ GetXattr(ino, fs[<<ret.game, "a">>]) = P1

\* C16: a nested subdirectory of the game directory is named by an Extra
\* failure of the list Game::verify or Game::add_and_verify returns.
C16_NestedDirIsExtra ==
    (pc = "idle" /\ ret.op \in {"verify", "add"} /\ ret.status = "Ok") =>
        \A n \in NamesOf(ret.game) :
            (fs[<<ret.game, n>>] # 0 /\ ~IsFile(fs, ino, <<ret.game, n>>))
                => \E f \in ret.failures : f.kind = "Extra" /\ f.name = n

\* C17: when remove_file, create_dir_all or extract fails, the call returns
\* Err in that step: the cleanup pass has not run (no rename, no extra
\* unlinked or touched), and nothing is modified once Err is returned.
C17_ErrorStopsCall ==
    [][/\ (ret'.op = "add" /\ ret'.status = "Err" /\ ret.status # "Err") =>
            /\ pc = "loop" /\ pc' = "idle"
            /\ to_cleanup' = {} /\ extrasIn' = {}
            /\ \A e \in ev' : /\ e.op # "rename"
                               /\ e.op = "unlink" => e.name \in DOMAIN Manifest(game)
            /\ \A n \in NamesOf(game) \ DOMAIN Manifest(game) :
                   fs'[<<game, n>>] = pre.fs[<<game, n>>]
       /\ (ret.op = "add" /\ ret.status = "Err") =>
            /\ pc = "idle"
            /\ fs' = fs /\ dirs' = dirs /\ rom_sources' = rom_sources
      ]_vars

C17_Witness ==
    /\ AddReturned
    /\ ret.status = "Err"
    /\ ret.game = "g1"
    /\ PreIdentity("g1", "a") = P2
    /\ PreIdentity("g1", "b") = P1
    /\ ev = {Event("unlink", "a", "")}
    /\ fs[<<"g1", "b">>] = pre.fs[<<"g1", "b">>]
    /\ fs[<<"g1", "a">>] = 0

\* C20 as the specification states it: after a target is linked or copied,
\* RomSources names that target, flagged has_xattr, for the part.
C20_SourceRetargeted ==
    [][\A n \in DOMAIN Manifest(game) :
          (\E e \in ev' \ ev : e.name = n /\ e.op \in {"link", "copy"})
              => rom_sources'[Manifest(game)[n]] = FileSource(<<game, n>>, TRUE)
      ]_vars

\* C20: after a target is copied, RomSources names that target, flagged
\* has_xattr, for the part; after a target is linked, RomSources is what it
\* was (the source and its flag stay).
C20_SourceAfterExtract ==
    [][\A n \in DOMAIN Manifest(game) :
          /\ (\E e \in ev' \ ev : e.name = n /\ e.op = "copy")
                => rom_sources'[Manifest(game)[n]] = FileSource(<<game, n>>, TRUE)
          /\ (\E e \in ev' \ ev : e.name = n /\ e.op = "link")
                => rom_sources' = rom_sources
      ]_vars

C20_Witness ==
    /\ AddReturnedOk
    /\ ret.game = "g2"
    /\ Materialized({"copy"}) # {}
    /\ Materialized({"link"}) # {}
    /\ rom_sources[P1].path \in {<<"g2", "a">>, <<"g2", "b">>}
    /\ rom_sources[P1].path \notin {<<"g2", n>> : n \in Materialized({"link"})}

StepLinks(n) == Event("link", n, "") \in ev' \ ev
StepCopies(n) == Event("copy", n, "") \in ev' \ ev
ErrStep == pc = "loop" /\ pc' = "idle" /\ ret'.status = "Err"

\* C21: extraction from a File source is a hard link of the source when the
\* link succeeds, carrying the source's has_xattr flag (no attribute write
\* after it when the flag is set); a copy into a new file when the link
\* fails; an error only when the copy fails as well, never for a failed
\* link alone. Extraction from an archive member is never a link.
C21_ExtractLinkThenCopy ==
    [][pc = "loop" =>
        /\ \A n \in todo :
              LET tgt == <<game, n>>
                  part == Manifest(game)[n]
                  src == rom_sources[part]
              IN  /\ StepLinks(n) =>
                        /\ src.kind = "File" /\ src.path \in FsPaths
                        /\ fs[src.path] # 0
                        /\ fs'[tgt] = fs[src.path]
                        /\ fs'[src.path] = fs[src.path]
                        /\ src.has_xattr => ino'[fs'[tgt]] = ino[fs'[tgt]]
                        /\ (~src.has_xattr /\ xattrOK) => ino'[fs'[tgt]].xattr = part
                  /\ StepCopies(n) =>
                        /\ \/ src.kind = "Zip"
                           \/ src.path \notin FsPaths
                           \/ nfaults' = nfaults + 1 /\ linkFailed'
                        /\ fs'[tgt] # 0
                        /\ src.path \in FsPaths => fs'[tgt] # fs'[src.path]
                        /\ ino'[fs'[tgt]].content = SrcContent(src, fs', ino')
                  /\ src.kind = "Zip" => ~StepLinks(n)
        /\ ErrStep => linkFailed' = linkFailed
        /\ (ErrStep /\ nfaults' = nfaults) =>
              \E n \in todo :
                 LET src == rom_sources[Manifest(game)[n]]
                 IN  /\ src.kind = "File" /\ src.path \in FsPaths
                     /\ fs'[src.path] = 0 \/ ~ino'[fs'[src.path]].readable
      ]_vars

\* A call returned Ok after a hard link from the pool file failed and the
\* target was written by a copy.
C21_Witness ==
    /\ AddReturnedOk
    /\ linkFailed
    /\ pre.src[P1] \in {FileSource(PoolPath, FALSE), FileSource(PoolPath, TRUE)}
    /\ Event("copy", "a", "") \in ev
    /\ fs[<<game, "a">>] # 0 /\ fs[<<game, "a">>] # fs[PoolPath]

\* A call returned Ok after linking a from the pool file.
C21_WitnessLinked ==
    /\ AddReturnedOk
    /\ Event("link", "a", "") \in ev
    /\ fs[<<game, "a">>] = fs[PoolPath]

\* A call returned Err with no injected failure: RomSources named a file
\* that no longer exists, so neither the link nor the copy could be done.
C21_WitnessBothFail ==
    /\ AddReturned /\ ret.status = "Err"
    /\ nfaults = 0

\* C30: no step of add_and_verify (or of Game::verify) creates, deletes,
\* renames or rewrites a file outside the directory of the game of the
\* call: every path of the pool and of another game names the same inode
\* after the step, and that inode has the same body; only its attribute
\* may have been written.
C30_OnlyGameDirTouched ==
    [][\A p \in FsPaths :
          p[1] # game' =>
              /\ fs'[p] = fs[p]
              /\ fs[p] # 0 =>
                    /\ ino'[fs[p]].content = ino[fs[p]].content
                    /\ ino'[fs[p]].readable = ino[fs[p]].readable
      ]_vars

\* A second call, on g1, replaced a wrong file a by a link of the pool file
\* while g2/a, linked from the pool file by the first call, kept its inode.
C30_Witness ==
    /\ AddReturnedOk
    /\ game = "g1"
    /\ fs[PoolPath] # 0
    /\ fs[<<"g2", "a">>] = fs[PoolPath]
    /\ fs[<<"g1", "a">>] = fs[PoolPath]
    /\ Event("unlink", "a", "") \in ev
    /\ Event("link", "a", "") \in ev

\* A failure the cleanup pass cannot use.
Unusable(f) == f.kind = "Error" \/ (f.kind = "Extra" /\ f.part = IOErr)

StillListed(f) ==
    f \in to_cleanup' \cup failures' \/ (pc' = "idle" /\ f \in ret'.failures)

\* C26: every Error failure and every Extra without an identity that is
\* handed to cleanup_failures stays in its lists at every step and is in the
\* list it returns, and the file it names is neither renamed, nor replaced,
\* nor deleted by the cleanup pass.
C26_UnusableFailuresKept ==
    [][/\ (pc = "loop" /\ todo = {} /\ pc' # "loop") =>
            /\ \A f \in failures : Unusable(f) => StillListed(f)
            /\ \A n \in files_on_disk :
                  FromPath(fs, ino, <<game, n>>) = IOErr => StillListed(Extra(n, IOErr))
       /\ pc = "cleanup" =>
            \A f \in to_cleanup \cup failures :
                Unusable(f) =>
                    /\ StillListed(f)
                    /\ fs'[<<game, f.name>>] = fs[<<game, f.name>>]
                    /\ fs[<<game, f.name>>] # 0
      ]_vars

\* The cleanup pass renamed the identified extra b onto the missing a and
\* returned the Extra of c, whose identity could not be read; c is in place.
C26_Witness ==
    /\ AddReturnedOk
    /\ Event("rename", "a", "b") \in ev
    /\ Extra("c", IOErr) \in ret.failures
    /\ fs[<<game, "c">>] # 0

\* The cleanup pass ran with the Error of a, deleted the identified extra b
\* and returned the Error; a is in place.
C26_WitnessError ==
    /\ AddReturnedOk
    /\ extrasIn # {}
    /\ Error("a") \in ret.failures
    /\ fs[<<game, "a">>] # 0

\* C27: the partition made by cleanup_failures does not depend on the order
\* of the failure list: the extras map the pass works with is the only one
\* that an order of the identified extras can produce.
C27_PartitionOrderFree ==
    [][(pc = "loop" /\ pc' = "cleanup") =>
          \A m \in ExtrasMaps({x \in {ExtraOf(game, n) : n \in files_on_disk} :
                                   x.part # IOErr}) : m = extras'
      ]_vars

\* The Part the three tiers give for the inode k, in their order: the
\* PART_CACHE entry, the attribute, the hash of the body.
Resolved(k) ==
    IF partCache[k] # NoPart THEN partCache[k]
    ELSE IF ino[k].xattr # NoPart THEN ino[k].xattr
    ELSE IF ino[k].readable THEN PartOf(ino[k].content)
    ELSE IOErr

Hashed(k) == partCache[k] = NoPart /\ ino[k].xattr = NoPart /\ ino[k].readable

VerifyStep == pc = "idle" /\ ret'.op = "verify" /\ ncalls' = ncalls + 1

\* C23: from_cached_path answers with the PART_CACHE entry of the file's
\* inode when there is one, else with the attribute when there is one, else
\* with the hash of the body; an answer of the last two tiers is then in
\* PART_CACHE; only after hashing is the attribute written, and when that
\* write fails the answer and PART_CACHE are the same as when it succeeds.
C23_ResolutionOrder ==
    [][/\ VerifyStep =>
            \A n \in DOMAIN Manifest(game') \cap ReadDir(game') :
                LET k == fs[<<game', n>>]
                    r == Resolved(k)
                    expected == Manifest(game')[n]
                IN  /\ r = IOErr => Error(n) \in ret'.failures
                    /\ (r # IOErr /\ r # expected) => Bad(n, expected, r) \in ret'.failures
                    /\ r = expected => \A f \in ret'.failures : f.name # n
                    /\ partCache'[k] = (IF r = IOErr THEN NoPart ELSE r)
                    /\ ino'[k].xattr = (IF Hashed(k) /\ xattrOK THEN r ELSE ino[k].xattr)
       /\ pc = "loop" =>
            \A n \in (todo \ todo') \cap files_on_disk :
                pc' = "loop" =>
                    partCache'[fs[<<game, n>>]] =
                        (IF Resolved(fs[<<game, n>>]) = IOErr THEN NoPart
                         ELSE Resolved(fs[<<game, n>>]))
      ]_vars

\* Game::verify ran on g1/a right after the call that linked it from the
\* pool file: the inode was not in PART_CACHE, its identity came from the
\* attribute, and the Part is now in PART_CACHE.
C23_Witness ==
    /\ pc = "idle" /\ ret.op = "verify" /\ ret.game = "g1"
    /\ ncalls = 2 /\ prev.op = "add" /\ prev.game = "g1"
    /\ fs[<<"g1", "a">>] = fs[PoolPath] /\ fs[PoolPath] # 0
    /\ pre.ino[fs[PoolPath]].xattr = P1
    /\ partCache[fs[PoolPath]] = P1
    /\ ret.failures = {}

\* Game::verify hashed a file where attributes cannot be written: the Part
\* is in PART_CACHE and the file has no attribute.
C23_WitnessNoXattr ==
    /\ pc = "idle" /\ ret.op = "verify" /\ ret.game = "g1"
    /\ ~xattrOK
    /\ fs[<<"g1", "a">>] # 0
    /\ partCache[fs[<<"g1", "a">>]] = P2
    /\ ino[fs[<<"g1", "a">>]].xattr = NoPart
    /\ Bad("a", P1, P2) \in ret.failures

\* Game::verify answered from a PART_CACHE entry that differs from the body
\* of the file (the inode was reused after the entry was made).
C23_WitnessMapFirst ==
    /\ pc = "idle" /\ ret.op = "verify" /\ ret.game = "g1"
    /\ fs[<<"g1", "a">>] # 0
    /\ ino[fs[<<"g1", "a">>]].content = 1
    /\ Bad("a", P1, P2) \in ret.failures

\* C31: when add_and_verify returns Ok(failures), the path of every Bad
\* failure names a file that exists and the path of every Missing failure
\* names no file, also after a cleanup rename that failed.
C31_FailuresDescribeDirectory ==
    AddReturnedOk =>
        \A f \in ret.failures :
            /\ f.kind = "Bad" => Exists(<<ret.game, f.name>>)
            /\ f.kind = "Missing" => ~Exists(<<ret.game, f.name>>)

\* The Missing half alone.
C31_MissingNamesNoFile ==
    AddReturnedOk =>
        \A f \in ret.failures :
            f.kind = "Missing" => ~Exists(<<ret.game, f.name>>)

----------------------------------------------------------------------------
(* Properties of the identification of a byte stream (SpecId) *)

Identified == rpc = "done"
HasTag == Len(stream) >= 8 /\ SubSeq(stream, 1, 8) = Tag
HasVersion == HasTag /\ Len(stream) >= 16
StreamVersion == U32FromBE(SubSeq(stream, 13, 16))

\* The header sizes the claim names, and the ones of the CHD header layouts.
SkipAsStated(v) == CASE v = 3 -> 76 [] v = 4 -> 32 [] v = 5 -> 100 [] OTHER -> 0
SkipOfLayout(v) == CASE v = 3 -> 64 [] v = 4 -> 32 [] v = 5 -> 68 [] OTHER -> 0

HashAt(off) == SubSeq(stream, off + 1, off + 20)

\* C8 as the specification states it: a stream with the tag, a length field and version 3, 4 or 5
\* that holds 76, 32 or 100 header bytes and 20 more is identified as
\* Disk{sha1} with sha1 the 20 bytes after those 76, 32 or 100.
C8_SkipAsStated ==
    (/\ Identified
     /\ HasVersion
     /\ StreamVersion \in KnownVersions
     /\ Len(stream) >= 16 + SkipAsStated(StreamVersion) + 20)
    => result = Disk(HashAt(16 + SkipAsStated(StreamVersion)))

\* C8: a stream with the tag, a length field and version 3, 4 or 5 that holds
\* 64, 32 or 68 header bytes and 20 more is identified as Disk{sha1} with sha1
\* the 20 bytes after those 64, 32 or 68; no byte after them is read and
\* nothing is hashed into the result.
C8_ChdIdentity ==
    (/\ Identified
     /\ HasVersion
     /\ StreamVersion \in KnownVersions
     /\ Len(stream) >= 16 + SkipOfLayout(StreamVersion) + 20)
    => /\ result = Disk(HashAt(16 + SkipOfLayout(StreamVersion)))
       /\ pos = 16 + SkipOfLayout(StreamVersion) + 20

C8_Witness ==
    /\ Identified
    /\ HasVersion
    /\ StreamVersion = 5
    /\ Len(stream) > 16 + 100 + 20
    /\ result = Disk(Body(16 + 68, 20, 0))

\* C9: a stream shorter than 8 bytes, or without the tag, or with the tag and
\* a version other than 3, 4, 5 is identified as Rom{sha1} with sha1 the
\* digest of the whole stream, however the reads were split.
C9_RomFallback ==
    (/\ Identified
     /\ \/ Len(stream) < 8
        \/ ~HasTag
        \/ HasVersion /\ StreamVersion \notin KnownVersions)
    => result = Rom(Digest(stream))

C9_Witness ==
    /\ Identified
    /\ HasVersion
    /\ StreamVersion = 6
    /\ Len(stream) > 16
    /\ result = Rom(Digest(stream))

C9_WitnessShort ==
    /\ Identified
    /\ Len(stream) \in 1..7
    /\ result = Rom(Digest(stream))

\* C33: a stream with the tag and version 3, 4 or 5 that ends before the end
\* of the 20-byte hash field is not identified: from_reader returns the I/O
\* error, neither Rom nor Disk, and Part::verify makes Error of it, whatever
\* Part was expected.
C33_TruncatedChdIsError ==
    (/\ Identified
     /\ HasVersion
     /\ StreamVersion \in KnownVersions
     /\ Len(stream) < 16 + SkipOfLayout(StreamVersion) + 20)
    => /\ result = IOErr
       /\ VerifyOutcome(Disk(Zeros(20)), result, "a") = Error("a")
       /\ VerifyOutcome(Rom(Digest(stream)), result, "a") = Error("a")

\* A version 5 stream that ends 16 bytes into the hash field.
C33_Witness ==
    /\ Identified
    /\ HasVersion
    /\ StreamVersion = 5
    /\ Len(stream) = 16 + 68 + 16
    /\ pos = Len(stream)
    /\ result = IOErr
    /\ VerifyOutcome(Disk(Zeros(20)), result, "a").kind = "Error"

\* A version 3 stream that ends inside the header that is skipped.
C33_WitnessInHeader ==
    /\ Identified
    /\ HasVersion
    /\ StreamVersion = 3
    /\ Len(stream) = 16 + 52
    /\ result = IOErr

====
